---- MODULE Spec2Model ----
(***************************************************************************)
(* YantraOS: the Kriya Loop engine (src/core/engine.py, KriyaEngine) and   *)
(* the IPC command endpoint (src/core/ipc_server.py).                      *)
(*                                                                         *)
(* run() is one asyncio task.  None of the phase coroutines, nor _boot,    *)
(* contains an await, so the task is suspended at exactly one place: the   *)
(* asyncio.wait_for() of the inter-iteration sleep.  Callbacks of the      *)
(* event loop (the handler registered with loop.add_signal_handler) run    *)
(* only while the task is suspended there.                                 *)
(***************************************************************************)
EXTENDS Integers, Sequences, FiniteSets, TLC

\* ---------------------------------------------------------------- bounds
\* Number of loop cycles the model explores (the code's loop is unbounded).
MaxIter == 2

\* Number of _log calls the log model explores.
MaxPush == 110

\* Number of loop cycles the timed model explores.
MaxCycles == 3

\* Chunks one candidate's stream may deliver in the model.
MaxChunks == 2

\* Consecutive requests to one InferenceRouter in the model.
MaxRequests == 2

\* Log lines pushed to the IPC queue, and lines the stream endpoint
\* takes out of it, in the model.
MaxQPush == 516
MaxGets == 2

\* Calls of SandboxEngine.execute in the model.
MaxExecs == 3

\* Calls of VectorMemory.store_execution in the model.
MaxStores == 3

\* Concurrent store/query calls on the vector memory.
MaxCalls == 3

\* Longest label or snapshot name given to the snapshot manager.
MaxNameLen == 2

\* Largest VRAM size (GB) given to select_model_group, and the number of
\* times it is called with the same arguments.
MaxVram == 16
MaxSelects == 2

\* Concurrent execute() calls on the sandbox, and how far the clock of
\* that model runs (seconds).
MaxJobs == 3
MaxClock == 40

\* ------------------------------------------------------------- constants
\* asyncio.Queue(maxsize=512)
QueueMaxsize == 512

\* WatchdogSec of the systemd unit, in seconds ("must be within
\* WatchdogSec=15").
WatchdogSec == 15

\* Values of daemon.loop_interval_sec (default 10), in seconds.
LoopIntervals == {5, 10}

\* Time the four phases of one iteration take together, in seconds.
PhaseTimes == {0, 5, 15}

\* Time into the sleep at which a shutdown signal may arrive.
WakeTimes == {0, 5}

\* _log keeps the last 50 lines.
LogCapacity == 50

\* KriyaPhase members executed by run(), in the order of the four awaits.
PhaseOrder == <<"ANALYZE", "PATCH", "TEST", "UPDATE_ARCHITECTURE">>

NumPhases == Len(PhaseOrder)

KriyaPhase == {"ANALYZE", "PATCH", "TEST", "UPDATE_ARCHITECTURE", "IDLE"}

DaemonStatus == {"BOOTING", "ACTIVE", "IDLE", "ERROR", "OFFLINE"}

\* Values of last_error: None, or str(e) of the exception caught.
None == "None"

ErrText == "err"

\* Actions a /command body may carry ("reboot" stands for any unknown
\* one, "" for an object without an action key, "invalid_json" for a
\* body request.json() rejects, "not_object" for JSON that is not an
\* object and so has no get()).
CommandBodies ==
    {"ping", "get_phase", "shutdown", "reboot", "", "invalid_json",
     "not_object"}

\* The actions the endpoint dispatches.
Vocabulary == {"ping", "get_phase", "shutdown"}

\* Answers of /command: the three of the vocabulary, 400 "Unknown
\* action", 400 "Invalid JSON body", and the 500 of an unhandled
\* exception.
Responses ==
    {"none", "pong", "phase", "shutdown_requested", "error_400",
     "invalid_json_400", "error_500"}

\* SystemCapability (hardware.py).
SystemCapability == {"LOCAL_CAPABLE", "LOCAL_MINIMUM", "CLOUD_ONLY"}

\* Values of one model entry of the inference configuration: the key is
\* missing (None), empty, or names a model.
LocalCapableEntries == {None, "", "llama3:70b"}
LocalMinimumEntries == {None, "llama3:8b"}
CloudPrimaryEntries == {None, "gemini/gemini-1.5-pro"}
CloudFallbackEntries == {None, "", "anthropic/claude-3-haiku"}

\* The inference configurations: the "local" and "cloud" sections are
\* dictionaries, each entry present or not.
Configs ==
    [capable_model : LocalCapableEntries, minimum_model : LocalMinimumEntries,
     primary_model : CloudPrimaryEntries, fallback_model : CloudFallbackEntries]

\* The hardcoded emergency candidate.
EmergencyModel == "gemini/gemini-pro"

\* The two entry points of InferenceRouter.
RouterModes == {"complete", "stream"}

\* last_error = None, and a call that has neither returned nor raised.
NoError == [cand |-> 0, kind |-> "None"]
NoResult == [kind |-> "None", cand |-> 0, error |-> NoError]

\* hybrid_router.INFERENCE_TIMEOUT_SECS, the default of complete()'s
\* timeout parameter.
INFERENCE_TIMEOUT_SECS == 45

\* Values a caller passes as timeout, in seconds.
Timeouts == {10, 30, INFERENCE_TIMEOUT_SECS}

\* Time router.acompletion takes when it does finish, in seconds.
AwaitTimes == {0, 20, 40, 60}

\* What router.acompletion produces when it finishes: a response with
\* text, one whose content is None, one without choices, an exception.
InnerOutcomes == {"text", "no_content", "malformed", "raises"}

\* How an awaited completion can fail: acompletion raises, or it returns
\* a response whose content cannot be used (no choices, content None).
FailureKinds == {"error", "malformed"}

VARIABLES
    pc,               \* position of the run() task
    nxt,              \* index in PhaseOrder of the phase being awaited
    status,           \* self.status
    current_phase,    \* self.current_phase
    iteration,        \* self.iteration
    last_error,       \* self.last_error
    shutdown_event,   \* self._shutdown_event.is_set()
    notifier,         \* self._notifier is not None
    hardware_profiler,\* self.hardware_profiler is not None
    router,           \* self.router is not None
    memory,           \* self.memory is not None
    sandbox,          \* self.sandbox is not None
    sigPending,       \* SIGTERM/SIGINT delivered, handler callback not yet run
    state_ref,        \* ipc_server._state_ref is not None
    shutdown_requested, \* attribute shutdown_requested of the injected state
    response,         \* last answer of the /command endpoint
    pings,            \* observation: WATCHDOG=1 notifications sent
    completions,      \* observation: phase coroutines that returned
    trace,            \* observation: phases entered in the current iteration
    raisedAt,         \* observation: index of the phase that raised in it (0: none)
    reqIter,          \* observation: iteration in which a signal hit a running phase
    reqPhase,         \* observation: index of that phase (0: none)
    cmdIter,          \* observation: iteration when /command answered shutdown (-1: never)
    log_tail,         \* self.log_tail
    pushed,           \* observation: number of _log calls so far
    c_pc,             \* timed loop: position of run()
    now,              \* timed loop: wall clock (seconds)
    loop_interval,    \* self.loop_interval
    c_iter,           \* timed loop: self.iteration
    c_shutdown,       \* timed loop: self._shutdown_event.is_set()
    iterStart,        \* observation: time the current iteration started
    prevStart,        \* observation: time the previous one started (-1: none)
    elapsed,          \* observation: time the last run of the phases took
    slept,            \* observation: length of the last sleep (-1: none)
    lastPing,         \* observation: time of the last WATCHDOG=1 (-1: none)
    pingGap,          \* observation: time between the last two (-1: none)
    c_pings,          \* observation: WATCHDOG=1 notifications sent
    r_pc,             \* router: position of complete() / stream()
    r_mode,           \* router: which entry point was called
    capability,       \* router: what hw.evaluate_capability() returns
    config,           \* router: self.config (model entries)
    route_path,       \* router: route_path
    idx,              \* router: position of model_str in route_path
    r_last_error,     \* router: last_error
    r_result,         \* router: what the call returned or raised
    attempts,         \* observation: candidates awaited, in order
    outcomes,         \* observation: how each attempt ended
    chunks,           \* observation: chunks received from the open stream
    yielded,          \* observation: candidate of each chunk yielded
    h_pc,             \* hybrid: position of hybrid_router.complete()
    h_timeout,        \* hybrid: the timeout argument
    h_stream,         \* hybrid: the stream argument
    h_responds,       \* hybrid: whether router.acompletion ever finishes
    h_dur,            \* hybrid: the time it takes if it does
    h_inner,          \* hybrid: what it produces if it does
    h_clock,          \* observation: time.monotonic() - t_start
    h_result,         \* observation: what complete() returned or raised
    requests,         \* router: number of the current request
    current_model,    \* router: self.current_model when the request began
    prevFailed,       \* observation: candidates that failed in earlier requests
    snap,             \* observation: the last answer of an external read
    _log_queue,       \* ipc_server._log_queue, oldest entry first
    q_raised,         \* observation: a push_log_event call raised
    qpushed,          \* observation: number of push_log_event calls
    qgets,            \* observation: number of entries the stream took
    _status,          \* sandbox: self._status
    _client,          \* sandbox: self._client is not None
    sb_result,        \* observation: outcome of the last execute()
    execs,            \* observation: number of execute() calls
    runCalls,         \* observation: number of containers.run() calls
    _initialized,     \* memory: self._initialized
    _exec_logs,       \* memory: entries of the execution_logs collection
    stored,           \* observation: records stored and the ids returned
    m_result,         \* observation: how the last memory call ended
    t_pc,             \* worker: position of each store/query call
    t_op,             \* worker: which method each call is
    _work_queue,      \* worker: the executor's queue of submitted functions
    worker,           \* worker: the call whose function the worker thread runs (0: idle)
    loop_access,      \* worker: the call reading the collection on the loop thread (0: none)
    e_pc,             \* cloud: position of emit_telemetry()
    _AIOHTTP_AVAILABLE,\* cloud: whether aiohttp could be imported
    attempt,          \* cloud: the attempt variable of _post
    post_outcomes,    \* observation: how each POST attempt ended
    e_result,         \* observation: what emit_telemetry returned or raised
    b_pc,             \* btrfs: position of create_snapshot / rollback_to_snapshot
    b_op,             \* btrfs: which of the two was called
    b_name,           \* btrfs: the label / snapshot_name argument, as characters
    b_reboot,         \* btrfs: the reboot argument
    subvol_id,        \* btrfs: subvol_id of rollback_to_snapshot (-1: not set)
    commands,         \* observation: subprocess commands run, in order
    b_steps,          \* observation: steps of the call executed, in order
    failed_step,      \* observation: the step that failed ("none": none)
    b_result,         \* observation: outcome returned, or "raised"
    reboot_initiated, \* observation: RollbackResult.reboot_initiated
    vram_total_gb,    \* selection: the vram_total_gb argument
    vram_used_gb,     \* selection: the vram_used_gb argument
    sel_result,       \* observation: what select_model_group returned ("none": not called)
    sel_calls,        \* observation: number of calls made with these arguments
    boot_step,        \* boot: the step of run() / _boot() reached
    init_failed,      \* observation: collaborators whose initialization raised
    ready_notified,   \* observation: _notify("READY=1") was called
    x_now,            \* execution: monotonic clock (seconds)
    j_pc,             \* execution: position of each execute() call
    j_deadline,       \* execution: when the wait_for of each call expires
    j_thread,         \* execution: state of the executor job of each call
    j_finish,         \* execution: when containers.run of each job ends (-1: never)
    j_result,         \* observation: outcome each call returned, or "raised"
    j_done_at,        \* observation: when each call returned
    x_queue           \* execution: jobs waiting for a worker thread, oldest first

engineVars == <<pc, nxt, status, current_phase, iteration, last_error,
                shutdown_event, notifier, hardware_profiler, router, memory,
                sandbox>>

ipcVars == <<state_ref, shutdown_requested, response>>

obsVars == <<pings, completions, trace, raisedAt, reqIter, reqPhase, cmdIter>>

logVars == <<log_tail, pushed>>

\* State of the parts of the program the engine loop does not touch.
cadenceVars == <<c_pc, now, loop_interval, c_iter, c_shutdown, iterStart,
                 prevStart, elapsed, slept, lastPing, pingGap, c_pings>>

routerVars == <<r_pc, r_mode, capability, config, route_path, idx,
                r_last_error, r_result, attempts, outcomes, chunks, yielded>>

hybridVars == <<h_pc, h_timeout, h_stream, h_responds, h_dur, h_inner,
                h_clock, h_result>>

seqVars == <<requests, current_model, prevFailed>>

snapVars == <<snap>>

queueVars == <<_log_queue, q_raised, qpushed, qgets>>

sandboxVars == <<_status, _client, sb_result, execs, runCalls>>

memoryVars == <<_initialized, _exec_logs, stored, m_result>>

workerVars == <<t_pc, t_op, _work_queue, worker, loop_access>>

cloudVars == <<e_pc, _AIOHTTP_AVAILABLE, attempt, post_outcomes, e_result>>

btrfsVars == <<b_pc, b_op, b_name, b_reboot, subvol_id, commands, b_steps, failed_step, b_result, reboot_initiated>>

selectVars == <<vram_total_gb, vram_used_gb, sel_result, sel_calls>>

bootVars == <<boot_step, init_failed, ready_notified>>

execVars == <<x_now, j_pc, j_deadline, j_thread, j_finish, j_result, j_done_at, x_queue>>

extVars ==
    <<logVars, cadenceVars, routerVars, hybridVars, seqVars, snapVars,
     queueVars, sandboxVars, memoryVars, workerVars, cloudVars, btrfsVars,
     selectVars, bootVars, execVars>>

vars == <<engineVars, sigPending, ipcVars, obsVars, extVars>>

\* ------------------------------------------------------------- helpers

\* _notify(state): forwards to systemd only when a notifier exists; an
\* exception of notifier.notify is swallowed.  Returns the new ping count
\* for state = "WATCHDOG=1".
notify_watchdog(n) == IF notifier THEN n + 1 ELSE n

\* The phases whose body makes a collaborator call outside any try/except:
\*   PATCH   self.router.capability, subprocess.run (only FileNotFoundError
\*           and TimeoutExpired are caught)
\*   TEST    self.router.get_status(), self.sandbox.health_check()
\*   UPDATE  self.router.get_status() in _build_telemetry
\* Every fallible call of ANALYZE sits inside try/except Exception.
CanRaiseM(p) ==
    \/ p = "ANALYZE"
    \/ p = "PATCH" /\ router
    \/ p = "TEST" /\ (router \/ sandbox)
    \/ p = "UPDATE_ARCHITECTURE" /\ router

CanRaise(p) ==
    \/ p = "PATCH" /\ router
    \/ p = "TEST" /\ (router \/ sandbox)
    \/ p = "UPDATE_ARCHITECTURE" /\ router

\* self.iteration += 1
IncrM(i) == i + 2

Incr(i) == i + 1

\* Where control goes when a phase raises: the except Exception clause of
\* the iteration's try block, which falls through to the watchdog step.
ExceptTargetM == "escaped"

ExceptTarget == "watchdog"

\* Callbacks registered with loop.add_signal_handler run only while the
\* run() task is suspended, i.e. inside the wait_for of the sleep.
HandlerCanRunM == pc \notin {"boot", "done"}

HandlerCanRun == pc = "sleep"

\* ---------------------------------------------------------------- Init
EngineInit ==
    /\ pc = "boot"
    /\ nxt = 0
    /\ status = "BOOTING"
    /\ current_phase = "IDLE"
    /\ iteration = 0
    /\ last_error = None
    /\ shutdown_event = FALSE
    /\ notifier = FALSE
    /\ hardware_profiler = FALSE
    /\ router = FALSE
    /\ memory = FALSE
    /\ sandbox = FALSE
    /\ sigPending = FALSE
    /\ state_ref = FALSE
    /\ shutdown_requested = FALSE
    /\ response = "none"
    /\ pings = 0
    /\ completions = 0
    /\ trace = <<>>
    /\ raisedAt = 0
    /\ reqIter = 0
    /\ reqPhase = 0
    /\ cmdIter = -1

\* self.log_tail: list[str] = []
LogInit ==
    /\ log_tail = <<>>
    /\ pushed = 0

\* The timed view of the loop, not started.
CadenceIdle ==
    /\ c_pc = "off"
    /\ now = 0
    /\ loop_interval = 10
    /\ c_iter = 0
    /\ c_shutdown = FALSE
    /\ iterStart = 0
    /\ prevStart = -1
    /\ elapsed = 0
    /\ slept = -1
    /\ lastPing = -1
    /\ pingGap = -1
    /\ c_pings = 0

\* The router before any request.
RouterIdle ==
    /\ r_pc = "off"
    /\ r_mode = "complete"
    /\ capability = "CLOUD_ONLY"
    /\ config = [capable_model |-> None, minimum_model |-> None,
                 primary_model |-> None, fallback_model |-> None]
    /\ route_path = <<>>
    /\ idx = 0
    /\ r_last_error = NoError
    /\ r_result = NoResult
    /\ attempts = <<>>
    /\ outcomes = <<>>
    /\ chunks = 0
    /\ yielded = <<>>

\* A new InferenceRouter: no request served yet, current_model = "NONE".
SeqInit ==
    /\ requests = 1
    /\ current_model = "NONE"
    /\ prevFailed = {}

\* No external read answered yet.
NoSnap == [kind |-> "none", phase |-> "UNKNOWN", iteration |-> 0,
           at |-> "boot", truePhase |-> "BOOT"]

SnapInit == snap = NoSnap

\* _log_queue = asyncio.Queue(maxsize=512), empty.
QueueInit ==
    /\ _log_queue = <<>>
    /\ q_raised = FALSE
    /\ qpushed = 0
    /\ qgets = 0

\* SandboxEngine.__init__
SandboxInit ==
    /\ _status = "UNAVAILABLE"
    /\ _client = FALSE
    /\ sb_result = "none"
    /\ execs = 0
    /\ runCalls = 0

\* VectorMemory.__init__: not initialized; the collection starts empty.
MemoryInit ==
    /\ _initialized = FALSE
    /\ _exec_logs = <<>>
    /\ stored = <<>>
    /\ m_result = [op |-> "none", outcome |-> "none"]

\* VectorMemory after initialize(): the executor has one idle worker
\* thread and an empty queue; no store or query call has started.
WorkerInit ==
    /\ t_pc = [t \in 1..MaxCalls |-> "new"]
    /\ t_op = [t \in 1..MaxCalls |-> "none"]
    /\ _work_queue = <<>>
    /\ worker = 0
    /\ loop_access = 0

\* cloud.py before any call of emit_telemetry().
CloudIdle ==
    /\ e_pc = "off"
    /\ _AIOHTTP_AVAILABLE = TRUE
    /\ attempt = 0
    /\ post_outcomes = <<>>
    /\ e_result = "none"

\* btrfs_manager before any call.
BtrfsIdle ==
    /\ b_pc = "off"
    /\ b_op = "none"
    /\ b_name = <<>>
    /\ b_reboot = FALSE
    /\ subvol_id = -1
    /\ commands = <<>>
    /\ b_steps = <<>>
    /\ failed_step = "none"
    /\ b_result = "none"
    /\ reboot_initiated = FALSE

\* select_model_group before any call.
SelectIdle ==
    /\ vram_total_gb = 0
    /\ vram_used_gb = 0
    /\ sel_result = "none"
    /\ sel_calls = 0

\* run() before _init_sdnotify and _boot.
BootIdle ==
    /\ boot_step = "sdnotify"
    /\ init_failed = {}
    /\ ready_notified = FALSE

\* SandboxEngine with no execute() call made yet.
ExecIdle ==
    /\ x_now = 0
    /\ j_pc = [j \in 1..MaxJobs |-> "new"]
    /\ j_deadline = [j \in 1..MaxJobs |-> 0]
    /\ j_thread = [j \in 1..MaxJobs |-> "none"]
    /\ j_finish = [j \in 1..MaxJobs |-> 0]
    /\ j_result = [j \in 1..MaxJobs |-> "none"]
    /\ j_done_at = [j \in 1..MaxJobs |-> 0]
    /\ x_queue = <<>>

\* hybrid_router before any call of complete().
HybridIdle ==
    /\ h_pc = "off"
    /\ h_timeout = INFERENCE_TIMEOUT_SECS
    /\ h_stream = FALSE
    /\ h_responds = TRUE
    /\ h_dur = 0
    /\ h_inner = "text"
    /\ h_clock = 0
    /\ h_result = None

Init ==
    /\ EngineInit
    /\ LogInit
    /\ CadenceIdle
    /\ RouterIdle
    /\ HybridIdle
    /\ SeqInit
    /\ SnapInit
    /\ QueueInit
    /\ SandboxInit
    /\ MemoryInit
    /\ WorkerInit
    /\ CloudIdle
    /\ BtrfsIdle
    /\ SelectIdle
    /\ BootIdle
    /\ ExecIdle

\* ------------------------------------------------------- engine actions

\* run() up to the loop: _setup_signals, _init_sdnotify, _boot.  Each
\* collaborator either initialises or its failure is logged and it stays
\* None; READY=1 is sent and the status becomes ACTIVE in every case.
Boot ==
    /\ pc = "boot"
    /\ \E sd \in BOOLEAN, hw \in BOOLEAN, rt \in BOOLEAN,
          mem \in BOOLEAN, sb \in BOOLEAN :
          /\ notifier' = sd
          /\ hardware_profiler' = hw
          /\ router' = rt
          /\ memory' = mem
          /\ sandbox' = sb
    /\ status' = "ACTIVE"
    /\ pc' = "loop"
    /\ UNCHANGED <<nxt, current_phase, iteration, last_error, shutdown_event,
                   sigPending, ipcVars, extVars, obsVars>>

\* ------------------------------------------------- _boot, step by step

\* How the initialization of one collaborator ends: every statement of
\* its try block passes; the import or the constructor raises, before
\* the attribute is assigned; or a call made on the new object inside
\* the same try block raises, after the attribute was assigned.
InitOutcomes == {"ok", "constructor_raised", "probe_raised"}

\* Everything the boot steps leave alone besides the engine's fields.
bootFrame ==
    <<sigPending, ipcVars, obsVars, logVars, cadenceVars, routerVars,
     hybridVars, seqVars, snapVars, queueVars, sandboxVars, memoryVars,
     workerVars, cloudVars, btrfsVars, selectVars, execVars>>

\* Whether self.<collaborator> is set after its try block: the
\* assignment is the first statement after the import, so it has
\* happened unless the import or the constructor raised.
Assigned(outcome) == outcome # "constructor_raised"

\* The collaborators recorded as failed after one more block.
Failed(name, outcome) ==
    IF outcome = "ok" THEN init_failed ELSE init_failed \cup {name}

\* _init_sdnotify(): the notifier exists unless sdnotify cannot be
\* imported.
_init_sdnotify ==
    /\ pc = "boot"
    /\ boot_step = "sdnotify"
    /\ notifier' \in BOOLEAN
    /\ boot_step' = "hardware"
    /\ UNCHANGED <<pc, nxt, status, current_phase, iteration, last_error,
                   shutdown_event, hardware_profiler, router, memory, sandbox,
                   init_failed, ready_notified>>
    /\ UNCHANGED bootFrame

\* _boot 1: HardwareProfiler(...) is assigned, then detect() is called.
BootHardware ==
    /\ pc = "boot"
    /\ boot_step = "hardware"
    /\ \E outcome \in InitOutcomes :
          /\ hardware_profiler' = Assigned(outcome)
          /\ init_failed' = Failed("hardware", outcome)
    /\ status' = "BOOTING"
    /\ boot_step' = "router"
    /\ UNCHANGED <<pc, nxt, current_phase, iteration, last_error,
                   shutdown_event, notifier, router, memory, sandbox,
                   ready_notified>>
    /\ UNCHANGED bootFrame

\* _boot 2: InferenceRouter(...) is assigned, then get_status() is read.
BootRouter ==
    /\ pc = "boot"
    /\ boot_step = "router"
    /\ \E outcome \in InitOutcomes :
          /\ router' = Assigned(outcome)
          /\ init_failed' = Failed("router", outcome)
    /\ boot_step' = "memory"
    /\ UNCHANGED <<pc, nxt, status, current_phase, iteration, last_error,
                   shutdown_event, notifier, hardware_profiler, memory,
                   sandbox, ready_notified>>
    /\ UNCHANGED bootFrame

\* _boot 3: VectorMemory(...) is assigned; nothing is called on it.
BootMemory ==
    /\ pc = "boot"
    /\ boot_step = "memory"
    /\ \E outcome \in InitOutcomes \ {"probe_raised"} :
          /\ memory' = Assigned(outcome)
          /\ init_failed' = Failed("memory", outcome)
    /\ boot_step' = "sandbox"
    /\ UNCHANGED <<pc, nxt, status, current_phase, iteration, last_error,
                   shutdown_event, notifier, hardware_profiler, router,
                   sandbox, ready_notified>>
    /\ UNCHANGED bootFrame

\* _boot 4: Sandbox() is assigned, then health_check() is called.
BootSandbox ==
    /\ pc = "boot"
    /\ boot_step = "sandbox"
    /\ \E outcome \in InitOutcomes :
          /\ sandbox' = Assigned(outcome)
          /\ init_failed' = Failed("sandbox", outcome)
    /\ boot_step' = "ready"
    /\ UNCHANGED <<pc, nxt, status, current_phase, iteration, last_error,
                   shutdown_event, notifier, hardware_profiler, router,
                   memory, ready_notified>>
    /\ UNCHANGED bootFrame

\* _boot 5: _notify("READY=1"), _notify("STATUS=..."), status = ACTIVE;
\* _boot returns and run() reaches its loop.
BootReady ==
    /\ pc = "boot"
    /\ boot_step = "ready"
    /\ ready_notified' = TRUE
    /\ status' = "ACTIVE"
    /\ boot_step' = "done"
    /\ pc' = "loop"
    /\ UNCHANGED <<nxt, current_phase, iteration, last_error, shutdown_event,
                   notifier, hardware_profiler, router, memory, sandbox,
                   init_failed>>
    /\ UNCHANGED bootFrame

\* while not self._shutdown_event.is_set(): self.iteration += 1
LoopTest ==
    /\ pc = "loop"
    /\ IF shutdown_event
       THEN /\ pc' = "shutdown"
            /\ UNCHANGED <<nxt, iteration, trace, raisedAt>>
       ELSE /\ iteration' = Incr(iteration)
            /\ nxt' = 1
            /\ trace' = <<>>
            /\ raisedAt' = 0
            /\ pc' = "call"
    /\ UNCHANGED <<status, current_phase, last_error, shutdown_event, notifier,
                   hardware_profiler, router, memory, sandbox, sigPending,
                   ipcVars, extVars, pings, completions, reqIter, reqPhase, cmdIter>>

\* First statement of a phase coroutine: self.current_phase = KriyaPhase.X
PhaseEnter ==
    /\ pc = "call"
    /\ current_phase' = PhaseOrder[nxt]
    /\ trace' = Append(trace, PhaseOrder[nxt])
    /\ pc' = "body"
    /\ UNCHANGED <<nxt, status, iteration, last_error, shutdown_event, notifier,
                   hardware_profiler, router, memory, sandbox, sigPending,
                   ipcVars, extVars, pings, completions, raisedAt, reqIter, reqPhase,
                   cmdIter>>

\* Variant: the end of the try block does not reset last_error.
PhaseReturnM ==
    /\ pc = "body"
    /\ completions' = completions + 1
    /\ IF nxt < NumPhases
       THEN /\ nxt' = nxt + 1
            /\ pc' = "call"
            /\ UNCHANGED status
       ELSE /\ status' = "ACTIVE"
            /\ pc' = "watchdog"
            /\ UNCHANGED nxt
    /\ UNCHANGED <<last_error, current_phase, iteration, shutdown_event,
                   notifier, hardware_profiler, router, memory, sandbox,
                   sigPending, ipcVars, extVars, pings, trace, raisedAt,
                   reqIter, reqPhase, cmdIter>>

\* The phase coroutine returns.  After the fourth one the try block ends
\* with self.last_error = None; self.status = DaemonStatus.ACTIVE.
PhaseReturn ==
    /\ pc = "body"
    /\ completions' = completions + 1
    /\ IF nxt < NumPhases
       THEN /\ nxt' = nxt + 1
            /\ pc' = "call"
            /\ UNCHANGED <<last_error, status>>
       ELSE /\ last_error' = None
            /\ status' = "ACTIVE"
            /\ pc' = "watchdog"
            /\ UNCHANGED nxt
    /\ UNCHANGED <<current_phase, iteration, shutdown_event, notifier,
                   hardware_profiler, router, memory, sandbox, sigPending,
                   ipcVars, extVars, pings, trace, raisedAt, reqIter, reqPhase, cmdIter>>

\* Variant: except Exception records the error and leaves the status.
PhaseRaiseM ==
    /\ pc = "body"
    /\ CanRaise(PhaseOrder[nxt])
    /\ last_error' = ErrText
    /\ raisedAt' = nxt
    /\ pc' = ExceptTarget
    /\ UNCHANGED <<nxt, status, current_phase, iteration, shutdown_event,
                   notifier, hardware_profiler, router, memory, sandbox,
                   sigPending, ipcVars, extVars, pings, completions, trace,
                   reqIter, reqPhase, cmdIter>>

\* The phase coroutine raises an Exception: the remaining awaits of the try
\* block are skipped; except Exception sets last_error and status ERROR.
PhaseRaise ==
    /\ pc = "body"
    /\ CanRaise(PhaseOrder[nxt])
    /\ last_error' = ErrText
    /\ status' = "ERROR"
    /\ raisedAt' = nxt
    /\ pc' = ExceptTarget
    /\ UNCHANGED <<nxt, current_phase, iteration, shutdown_event, notifier,
                   hardware_profiler, router, memory, sandbox, sigPending,
                   ipcVars, extVars, pings, completions, trace, reqIter, reqPhase,
                   cmdIter>>

\* A blocking call inside the phase never returns (no phase body has a
\* timeout around its collaborator calls): the run() task makes no further
\* step.
PhaseHang ==
    /\ pc = "body"
    /\ pc' = "hung"
    /\ UNCHANGED <<nxt, status, current_phase, iteration, last_error,
                   shutdown_event, notifier, hardware_profiler, router, memory,
                   sandbox, sigPending, ipcVars, extVars, obsVars>>

\* Variant: besides the loop's heartbeat, a timer task sends WATCHDOG=1 on
\* its own schedule, whatever the run() task is doing.
WatchdogM ==
    \/ /\ pc = "watchdog"
       /\ pings' = notify_watchdog(pings)
       /\ current_phase' = "IDLE"
       /\ pc' = "sleep"
       /\ UNCHANGED <<nxt, status, iteration, last_error, shutdown_event,
                      notifier, hardware_profiler, router, memory, sandbox,
                      sigPending, ipcVars, extVars, completions, trace, raisedAt,
                      reqIter, reqPhase, cmdIter>>
    \/ /\ pc \notin {"boot", "done"}
       /\ notifier
       /\ pings < MaxIter
       /\ pings' = pings + 1
       /\ UNCHANGED <<engineVars, sigPending, ipcVars, extVars, completions, trace,
                      raisedAt, reqIter, reqPhase, cmdIter>>

\* self._notify("WATCHDOG=1"); self.current_phase = KriyaPhase.IDLE;
\* then the task suspends in asyncio.wait_for(self._shutdown_event.wait()).
Watchdog ==
    /\ pc = "watchdog"
    /\ pings' = notify_watchdog(pings)
    /\ current_phase' = "IDLE"
    /\ pc' = "sleep"
    /\ UNCHANGED <<nxt, status, iteration, last_error, shutdown_event, notifier,
                   hardware_profiler, router, memory, sandbox, sigPending,
                   ipcVars, extVars, completions, trace, raisedAt, reqIter, reqPhase,
                   cmdIter>>

\* Variant: a plain asyncio.sleep(loop_interval), which a set event does
\* not end.
SleepWokenM ==
    /\ FALSE
    /\ UNCHANGED vars

\* wait_for returns because the event was set: break.
SleepWoken ==
    /\ pc = "sleep"
    /\ shutdown_event
    /\ pc' = "shutdown"
    /\ UNCHANGED <<nxt, status, current_phase, iteration, last_error,
                   shutdown_event, notifier, hardware_profiler, router, memory,
                   sandbox, sigPending, ipcVars, extVars, obsVars>>

\* wait_for raises asyncio.TimeoutError after loop_interval: continue.  The
\* event loop runs a ready signal callback before it resumes the task.
SleepTimeout ==
    /\ pc = "sleep"
    /\ ~sigPending
    /\ iteration < MaxIter
    /\ pc' = "loop"
    /\ UNCHANGED <<nxt, status, current_phase, iteration, last_error,
                   shutdown_event, notifier, hardware_profiler, router, memory,
                   sandbox, sigPending, ipcVars, extVars, obsVars>>

\* After the loop: _notify("STOPPING=1"); self.status = OFFLINE; cleanup.
Shutdown ==
    /\ pc = "shutdown"
    /\ status' = "OFFLINE"
    /\ pc' = "done"
    /\ UNCHANGED <<nxt, current_phase, iteration, last_error, shutdown_event,
                   notifier, hardware_profiler, router, memory, sandbox,
                   sigPending, ipcVars, extVars, obsVars>>

\* ------------------------------------------------------------- signals

\* The operating system delivers SIGTERM or SIGINT to the process.
Signal ==
    /\ pc \notin {"boot", "done"}
    /\ ~sigPending
    /\ sigPending' = TRUE
    /\ IF pc = "body" /\ reqPhase = 0
       THEN reqIter' = iteration /\ reqPhase' = nxt
       ELSE UNCHANGED <<reqIter, reqPhase>>
    /\ UNCHANGED <<engineVars, ipcVars, extVars, pings, completions, trace, raisedAt,
                   cmdIter>>

\* _handle_shutdown(sig): self.status = OFFLINE; self._shutdown_event.set()
HandleShutdown ==
    /\ sigPending
    /\ HandlerCanRun
    /\ status' = "OFFLINE"
    /\ shutdown_event' = TRUE
    /\ sigPending' = FALSE
    /\ UNCHANGED <<pc, nxt, current_phase, iteration, last_error, notifier,
                   hardware_profiler, router, memory, sandbox, ipcVars, extVars, obsVars>>

\* ----------------------------------------------------------------- IPC

\* set_state_ref(state)
set_state_ref ==
    /\ ~state_ref
    /\ state_ref' = TRUE
    /\ UNCHANGED <<engineVars, sigPending, shutdown_requested, response,
                   obsVars, extVars>>

\* Variant: an unknown action is answered like ping.
CommandResponseM(body) ==
    CASE body = "invalid_json" -> "invalid_json_400"
      [] body = "not_object"   -> "error_500"
      [] body = "get_phase"    -> "phase"
      [] body = "shutdown"     -> "shutdown_requested"
      [] OTHER                 -> "pong"

\* The answer of POST /command for a body.
CommandResponse(body) ==
    CASE body = "invalid_json" -> "invalid_json_400"
      [] body = "not_object"   -> "error_500"
      [] body = "ping"         -> "pong"
      [] body = "get_phase"    -> "phase"
      [] body = "shutdown"     -> "shutdown_requested"
      [] OTHER                 -> "error_400"

\* POST /command with the given body.
CommandStep(body) ==
    /\ response' = CommandResponse(body)
    /\ shutdown_requested' =
          IF body = "shutdown" /\ state_ref THEN TRUE ELSE shutdown_requested
    /\ cmdIter' = IF body = "shutdown" /\ cmdIter = -1
                  THEN iteration ELSE cmdIter
    /\ UNCHANGED <<engineVars, sigPending, state_ref, pings, completions,
                   trace, raisedAt, reqIter, reqPhase, extVars>>

\* POST /command
command == \E body \in CommandBodies : CommandStep(body)

\* ---------------------------------------------------------------- Next

RunStep ==
    \/ Boot
    \/ LoopTest
    \/ PhaseEnter
    \/ PhaseReturn
    \/ PhaseRaise
    \/ PhaseHang
    \/ Watchdog
    \/ SleepWoken
    \/ Shutdown

\* The engine process: run() never starts the IPC server nor calls
\* set_state_ref, so the daemon on its own has no IPC steps.
Next ==
    \/ RunStep
    \/ SleepTimeout
    \/ Signal
    \/ HandleShutdown

Spec == Init /\ [][Next]_vars

\* The engine with _boot taken one collaborator at a time.
NextBoot ==
    \/ _init_sdnotify
    \/ BootHardware
    \/ BootRouter
    \/ BootMemory
    \/ BootSandbox
    \/ BootReady
    \/ LoopTest
    \/ PhaseEnter
    \/ PhaseReturn
    \/ PhaseRaise
    \/ PhaseHang
    \/ Watchdog
    \/ SleepWoken
    \/ Shutdown
    \/ SleepTimeout
    \/ Signal
    \/ HandleShutdown

SpecBoot == Init /\ [][NextBoot]_vars

\* The engine together with the IPC server (ipc_server.serve()).
NextIpc ==
    \/ Next
    \/ set_state_ref
    \/ command

SpecIpc == Init /\ [][NextIpc]_vars

\* -------------------------------------------------- external state reads

\* Everything an external read leaves alone.
notSnapVars ==
    <<engineVars, sigPending, ipcVars, obsVars, logVars, cadenceVars,
     routerVars, hybridVars, seqVars, queueVars, sandboxVars, memoryVars,
     workerVars, cloudVars, btrfsVars, selectVars, bootVars, execVars>>

\* GET /telemetry: 503 when no state was injected; otherwise the handler
\* reads the attributes of the live object one by one.  The object with
\* the loop's state is the engine, which has iteration but no attribute
\* named phase (it is current_phase), so getattr answers "UNKNOWN".
telemetry ==
    /\ snap' = IF ~state_ref
               THEN [kind |-> "error_503", phase |-> "UNKNOWN",
                     iteration |-> 0, at |-> pc, truePhase |-> current_phase]
               ELSE [kind |-> "state", phase |-> "UNKNOWN",
                     iteration |-> iteration, at |-> pc,
                     truePhase |-> current_phase]
    /\ UNCHANGED notSnapVars

\* POST /command {"action": "get_phase"}:
\* getattr(_state_ref, "phase", "UNKNOWN"), also when _state_ref is None.
get_phase ==
    /\ snap' = [kind |-> "phase", phase |-> "UNKNOWN", iteration |-> 0,
                at |-> pc, truePhase |-> current_phase]
    /\ UNCHANGED notSnapVars

NextSnap ==
    \/ Next
    \/ set_state_ref
    \/ telemetry
    \/ get_phase

SpecSnap == Init /\ [][NextSnap]_vars

\* ------------------------------------------------- the IPC log queue

\* Everything but the log queue.
notQueueVars ==
    <<engineVars, sigPending, ipcVars, obsVars, logVars, cadenceVars,
     routerVars, hybridVars, seqVars, snapVars, sandboxVars, memoryVars,
     workerVars, cloudVars, btrfsVars, selectVars, bootVars, execVars>>

\* Variant: a full queue keeps its entries and the new line is dropped.
EnqueueM(queue, message) ==
    IF Len(queue) >= QueueMaxsize
    THEN [queue |-> queue, raised |-> FALSE]
    ELSE [queue |-> Append(queue, message), raised |-> FALSE]

\* The body of push_log_event: put_nowait; on QueueFull, get_nowait
\* (QueueEmpty is passed over) and put_nowait again, whose QueueFull
\* would leave the function.
Enqueue(queue, message) ==
    IF Len(queue) < QueueMaxsize
    THEN [queue |-> Append(queue, message), raised |-> FALSE]
    ELSE LET evicted == IF queue = <<>> THEN queue ELSE Tail(queue)
         IN  IF Len(evicted) < QueueMaxsize
             THEN [queue |-> Append(evicted, message), raised |-> FALSE]
             ELSE [queue |-> evicted, raised |-> TRUE]

\* push_log_event(message): the lines are numbered in push order.
push_log_event ==
    /\ qpushed < MaxQPush
    /\ qpushed' = qpushed + 1
    /\ _log_queue' = Enqueue(_log_queue, qpushed + 1).queue
    /\ q_raised' = (q_raised \/ Enqueue(_log_queue, qpushed + 1).raised)
    /\ UNCHANGED qgets
    /\ UNCHANGED notQueueVars

\* GET /stream, event_generator: _log_queue.get() returns the oldest entry.
stream_get ==
    /\ qgets < MaxGets
    /\ _log_queue # <<>>
    /\ _log_queue' = Tail(_log_queue)
    /\ qgets' = qgets + 1
    /\ UNCHANGED <<q_raised, qpushed>>
    /\ UNCHANGED notQueueVars

NextQueue ==
    \/ push_log_event
    \/ stream_get

SpecQueue == Init /\ [][NextQueue]_vars

\* The IPC server on its own (ipc_server.serve() with nothing but the
\* module's own state): state injection, /command, and the log queue.
NextIpcServer ==
    \/ set_state_ref
    \/ command
    \/ push_log_event
    \/ stream_get

SpecIpcServer == Init /\ [][NextIpcServer]_vars

\* ======================================================================
\* SandboxEngine (core/sandbox.py)
\* ======================================================================

SandboxStatus == {"HEALTHY", "DEGRADED", "UNAVAILABLE"}

ExecOutcome == {"success", "failure", "timeout", "docker_error"}

\* What _blocking_init meets: docker-py missing, no daemon to connect to,
\* a daemon that does not answer the ping, one whose info() call fails,
\* or a working one.
InitCases == {"no_docker_py", "no_daemon", "ping_fails", "info_fails", "ok"}

\* Everything but the sandbox.
notSandboxVars ==
    <<engineVars, sigPending, ipcVars, obsVars, logVars, cadenceVars,
     routerVars, hybridVars, seqVars, snapVars, queueVars, memoryVars,
     workerVars, cloudVars, btrfsVars, selectVars, bootVars, execVars>>

\* Variant: only UNAVAILABLE counts as not operational.
is_operationalM(st) == st # "UNAVAILABLE"

\* SandboxEngine.is_operational
is_operational(st) == st = "HEALTHY"

\* initialize(): self._status = the value _blocking_init returns; when
\* info() raises, the exception leaves initialize and _status keeps its
\* value, with the client already connected.
initialize ==
    /\ \E case \in InitCases :
          /\ _status' = CASE case = "no_docker_py" -> "UNAVAILABLE"
                          [] case = "no_daemon"    -> "DEGRADED"
                          [] case = "ping_fails"   -> "DEGRADED"
                          [] case = "info_fails"   -> _status
                          [] OTHER                 -> "HEALTHY"
          /\ _client' = CASE case = "no_docker_py" -> _client
                          [] case = "no_daemon"    -> _client
                          [] case = "ping_fails"   -> FALSE
                          [] OTHER                 -> TRUE
    /\ UNCHANGED <<sb_result, execs, runCalls>>
    /\ UNCHANGED notSandboxVars

\* health_check(): no client, nothing changes; a ping that succeeds
\* makes the status HEALTHY, one that fails turns HEALTHY into DEGRADED.
health_check ==
    /\ \E pingOk \in BOOLEAN :
          _status' = IF ~_client THEN _status
                     ELSE IF pingOk THEN "HEALTHY"
                     ELSE IF _status = "HEALTHY" THEN "DEGRADED"
                     ELSE _status
    /\ UNCHANGED <<_client, sb_result, execs, runCalls>>
    /\ UNCHANGED notSandboxVars

\* execute(script): rejected with DOCKER_ERROR when not operational;
\* otherwise _blocking_execute calls containers.run once and the result
\* is one of the four outcomes (timeout: the outer wait_for gave up).
execute ==
    /\ execs < MaxExecs
    /\ execs' = execs + 1
    /\ IF ~is_operational(_status)
       THEN /\ sb_result' = "docker_error"
            /\ runCalls' = runCalls
       ELSE /\ sb_result' \in ExecOutcome
            /\ runCalls' = runCalls + 1
    /\ UNCHANGED <<_status, _client>>
    /\ UNCHANGED notSandboxVars

NextSandbox ==
    \/ initialize
    \/ health_check
    \/ execute

SpecSandbox == Init /\ [][NextSandbox]_vars

\* ----------------------------------------------------------------------
\* SandboxEngine.execute in time: concurrent calls, the two threads of
\* self._executor, and the wait_for around each job.
\* ----------------------------------------------------------------------

EXECUTION_TIMEOUT_SECS == 30

\* The buffer of the outer timeout: timeout + 10.
AsyncBuffer == 10

\* ThreadPoolExecutor(max_workers=2)
MaxWorkers == 2

\* The clock advances in steps of the smallest time of the model; every
\* timeout and duration is a multiple of it.
TickSecs == AsyncBuffer

\* Values of the timeout argument.
ExecTimeouts == {10, EXECUTION_TIMEOUT_SECS}

\* How long containers.run blocks when it does return.
RunDurations == {10, 50}

\* containers.run never returns.
Never == -1

\* How containers.run ends: it returns the output, or raises.
RunResults == {"ok", "ContainerError", "ImageNotFound", "APIError", "Exception"}

\* Everything but the timed executions.
notExecVars ==
    <<engineVars, sigPending, ipcVars, obsVars, logVars, cadenceVars,
     routerVars, hybridVars, seqVars, snapVars, queueVars, sandboxVars,
     memoryVars, workerVars, cloudVars, btrfsVars, selectVars, bootVars>>

\* The sandbox after initialize(): HEALTHY with a client, DEGRADED (no
\* daemon), or UNAVAILABLE (no docker-py).
SandboxReady ==
    /\ _status \in SandboxStatus
    /\ _client = (_status = "HEALTHY")
    /\ sb_result = "none"
    /\ execs = 0
    /\ runCalls = 0

InitExec ==
    /\ EngineInit
    /\ LogInit
    /\ CadenceIdle
    /\ RouterIdle
    /\ HybridIdle
    /\ SeqInit
    /\ SnapInit
    /\ QueueInit
    /\ SandboxReady
    /\ MemoryInit
    /\ WorkerInit
    /\ CloudIdle
    /\ BtrfsIdle
    /\ SelectIdle
    /\ BootIdle
    /\ ExecIdle

\* Variant: an exception that is not a docker error leaves the job.
BlockingResultM(run) ==
    CASE run = "ok"             -> "success"
      [] run = "ContainerError" -> "failure"
      [] run = "Exception"      -> "raised"
      [] OTHER                  -> "docker_error"

\* _blocking_execute: the SandboxResult for each way containers.run
\* ends; the last handler is except Exception.
BlockingResult(run) ==
    CASE run = "ok"             -> "success"
      [] run = "ContainerError" -> "failure"
      [] OTHER                  -> "docker_error"

\* The jobs a worker thread is executing.
Running == {j \in 1..MaxJobs : j_thread[j] = "running"}

\* The call returns (or raises) now.
Return(j, result) ==
    /\ j_pc' = [j_pc EXCEPT ![j] = "returned"]
    /\ j_result' = [j_result EXCEPT ![j] = result]
    /\ j_done_at' = [j_done_at EXCEPT ![j] = x_now]

\* execute(script, timeout=...) up to its await: rejected when the
\* sandbox is not operational, otherwise _blocking_execute is submitted
\* to the executor and awaited for at most timeout + 10 seconds.
ExecCall(j) ==
    /\ j_pc[j] = "new"
    /\ j > 1 => j_pc[j - 1] # "new"
    /\ \E timeout \in ExecTimeouts :
          /\ x_now + timeout + AsyncBuffer <= MaxClock
          /\ IF ~is_operational(_status)
             THEN /\ Return(j, "docker_error")
                  /\ UNCHANGED <<j_deadline, j_thread, x_queue>>
             ELSE /\ j_pc' = [j_pc EXCEPT ![j] = "awaiting"]
                  /\ j_deadline' = [j_deadline EXCEPT
                                       ![j] = x_now + timeout + AsyncBuffer]
                  /\ j_thread' = [j_thread EXCEPT ![j] = "queued"]
                  /\ x_queue' = Append(x_queue, j)
                  /\ UNCHANGED <<j_result, j_done_at>>
    /\ UNCHANGED <<x_now, j_finish>>
    /\ UNCHANGED notExecVars

\* A free worker thread takes the oldest queued job and enters
\* containers.run, which will block for some time or for ever.
WorkerStart ==
    /\ x_queue # <<>>
    /\ Cardinality(Running) < MaxWorkers
    /\ j_thread' = [j_thread EXCEPT ![Head(x_queue)] = "running"]
    /\ x_queue' = Tail(x_queue)
    /\ \E d \in RunDurations \cup {Never} :
          j_finish' = [j_finish EXCEPT
                          ![Head(x_queue)] = IF d = Never THEN Never
                                             ELSE x_now + d]
    /\ UNCHANGED <<x_now, j_pc, j_deadline, j_result, j_done_at>>
    /\ UNCHANGED notExecVars

\* _blocking_execute returns its SandboxResult and frees the thread; the
\* call, if it still waits, returns that result.
ExecFinish(j) ==
    /\ j_thread[j] = "running"
    /\ j_finish[j] # Never
    /\ j_finish[j] <= x_now
    /\ j_thread' = [j_thread EXCEPT ![j] = "finished"]
    /\ IF j_pc[j] = "awaiting"
       THEN \E run \in RunResults : Return(j, BlockingResult(run))
       ELSE UNCHANGED <<j_pc, j_result, j_done_at>>
    /\ UNCHANGED <<x_now, j_deadline, j_finish, x_queue>>
    /\ UNCHANGED notExecVars

\* wait_for expires: a job still queued is cancelled, one that runs
\* keeps its thread; execute returns the TIMEOUT result.
ExecTimeout(j) ==
    /\ j_pc[j] = "awaiting"
    /\ j_deadline[j] <= x_now
    /\ Return(j, "timeout")
    /\ IF j_thread[j] = "queued"
       THEN /\ j_thread' = [j_thread EXCEPT ![j] = "cancelled"]
            /\ x_queue' = SelectSeq(x_queue, LAMBDA k : k # j)
       ELSE UNCHANGED <<j_thread, x_queue>>
    /\ UNCHANGED <<x_now, j_deadline, j_finish>>
    /\ UNCHANGED notExecVars

\* Time passes, once everything due now has happened: no idle worker
\* with a job waiting, no run that has ended, no deadline that expired.
Tick ==
    /\ x_now < MaxClock
    /\ ~(x_queue # <<>> /\ Cardinality(Running) < MaxWorkers)
    /\ \A j \in Running : j_finish[j] = Never \/ j_finish[j] > x_now
    /\ \A j \in 1..MaxJobs : j_pc[j] = "awaiting" => j_deadline[j] > x_now
    /\ x_now' = x_now + TickSecs
    /\ UNCHANGED <<j_pc, j_deadline, j_thread, j_finish, j_result,
                   j_done_at, x_queue>>
    /\ UNCHANGED notExecVars

NextExec ==
    \/ \E j \in 1..MaxJobs : ExecCall(j)
    \/ WorkerStart
    \/ \E j \in 1..MaxJobs : ExecFinish(j)
    \/ \E j \in 1..MaxJobs : ExecTimeout(j)
    \/ Tick

SpecExec == InitExec /\ [][NextExec]_vars

\* Threads run, timers fire and time passes.
FairSpecExec == SpecExec /\ WF_vars(NextExec)

\* ======================================================================
\* VectorMemory (core/vector_memory.py)
\* ======================================================================

\* Fields of the ExecutionRecords stored in the model.
ActionTypes == {"cleanup", "cleanup:df"}
CommandSeqs == {<<>>, <<"df">>, <<"df", "rm">>}
Outcomes == {"success", "failure"}

ExecutionRecords ==
    [action_type : ActionTypes, command_sequence : CommandSeqs,
     outcome : Outcomes]

\* The three query methods.
Queries == {"query_executions", "query_error_patterns", "query_skills"}

\* What the collection answers to a query: a well-formed response, one
\* whose lists are missing or of the wrong type (IndexError, TypeError,
\* KeyError while parsing), or one the parser does not guard against
\* (not a dict, a distance that float() rejects).
RawKinds == {"well_formed", "malformed_caught", "malformed_uncaught"}

\* Everything but the memory.
notMemoryVars ==
    <<engineVars, sigPending, ipcVars, obsVars, logVars, cadenceVars,
     routerVars, hybridVars, seqVars, snapVars, queueVars, sandboxVars,
     workerVars, cloudVars, btrfsVars, selectVars, bootVars, execVars>>

\* ':'.join(command_sequence)
RECURSIVE Join(_)
Join(cmds) ==
    IF cmds = <<>> THEN ""
    ELSE IF Len(cmds) = 1 THEN cmds[1]
    ELSE cmds[1] \o ":" \o Join(Tail(cmds))

\* ExecutionRecord.record_id: the hash of action_type and the commands;
\* the hash is a function of the string hashed.
record_id(record) ==
    "sha256:" \o record.action_type \o ":" \o Join(record.command_sequence)

\* Variant: the entry is added without looking for its id.
upsertM(collection, id, document) ==
    Append(collection, [id |-> id, document |-> document])

\* collection.upsert(ids=[id], documents=[document], ...): the entry with
\* that id is replaced, or the entry is added when there is none.
upsert(collection, id, document) ==
    IF \E k \in 1..Len(collection) : collection[k].id = id
    THEN [k \in 1..Len(collection) |->
             IF collection[k].id = id
             THEN [id |-> id, document |-> document]
             ELSE collection[k]]
    ELSE Append(collection, [id |-> id, document |-> document])

\* initialize(): _blocking_init raises (chromadb missing, storage error)
\* and the flag stays False, or the collections are ready.
m_initialize ==
    /\ ~_initialized
    /\ \E ok \in BOOLEAN :
          /\ _initialized' = ok
          /\ m_result' = [op |-> "initialize",
                          outcome |-> IF ok THEN "returned" ELSE "raised"]
    /\ UNCHANGED <<_exec_logs, stored>>
    /\ UNCHANGED notMemoryVars

\* store_execution(record): raises when not initialized or when the
\* upsert fails in the executor; otherwise upserts and returns the id.
store_execution ==
    /\ Len(stored) < MaxStores
    /\ \E record \in ExecutionRecords, ok \in BOOLEAN :
          IF _initialized /\ ok
          THEN /\ _exec_logs' = upsert(_exec_logs, record_id(record), record)
               /\ stored' = Append(stored, [record |-> record,
                                            id |-> record_id(record)])
               /\ m_result' = [op |-> "store_execution",
                               outcome |-> "returned"]
          ELSE /\ m_result' = [op |-> "store_execution", outcome |-> "raised"]
               /\ UNCHANGED <<_exec_logs, stored>>
    /\ UNCHANGED _initialized
    /\ UNCHANGED notMemoryVars

\* query_executions / query_error_patterns / query_skills:
\* _require_initialized() raises when not initialized; collection.count()
\* is called while the arguments are built, outside the try block; only
\* the query in the executor is guarded; _parse_query_results catches
\* IndexError, TypeError and KeyError.
query ==
    /\ \E q \in Queries, countOk \in BOOLEAN, queryOk \in BOOLEAN,
          raw \in RawKinds :
          m_result' =
             [op |-> q,
              outcome |-> IF ~_initialized THEN "raised"
                          ELSE IF ~countOk THEN "raised"
                          ELSE IF ~queryOk THEN "empty_list"
                          ELSE IF raw = "malformed_uncaught" THEN "raised"
                          ELSE "list"]
    /\ UNCHANGED <<_initialized, _exec_logs, stored>>
    /\ UNCHANGED notMemoryVars

NextMemory ==
    \/ m_initialize
    \/ store_execution
    \/ query

SpecMemory == Init /\ [][NextMemory]_vars

\* ----------------------------------------------------------------------
\* VectorMemory: which thread touches the collections.  The coroutines
\* run on the event-loop thread, one at a time; functions handed to
\* run_in_executor run on the one thread of self._executor.
\* ----------------------------------------------------------------------

\* The store and query methods of one collection.
MemoryOps == {"store_execution", "query_executions"}

\* Everything but the executor and its callers.
notWorkerVars ==
    <<engineVars, sigPending, ipcVars, obsVars, logVars, cadenceVars,
     routerVars, hybridVars, seqVars, snapVars, queueVars, sandboxVars,
     memoryVars, cloudVars, btrfsVars, selectVars, bootVars, execVars>>

\* The event-loop thread runs no coroutine code of these calls: every
\* call is new, suspended in an await, or finished.
LoopFree == loop_access = 0

\* The operations on the collections that are running now, each with
\* the thread it runs on: the function the worker executes (upsert or
\* query) and the count() a coroutine executes.
Accesses ==
    {[thread |-> "yantra-chroma", call |-> t] : t \in {worker} \ {0}}
    \cup {[thread |-> "event-loop", call |-> t] : t \in {loop_access} \ {0}}

\* store_execution(record) up to its await: ids, document and metadata
\* are computed from the record, the upsert is wrapped in a partial and
\* submitted to the executor.
CallStore(t) ==
    /\ LoopFree
    /\ t_pc[t] = "new"
    /\ t_op' = [t_op EXCEPT ![t] = "store_execution"]
    /\ _work_queue' = Append(_work_queue, t)
    /\ t_pc' = [t_pc EXCEPT ![t] = "awaiting"]
    /\ UNCHANGED <<worker, loop_access>>
    /\ UNCHANGED notWorkerVars

\* query_executions(text) up to collection.count(): the arguments of the
\* partial are evaluated by the coroutine itself, so count() runs on the
\* event-loop thread, which blocks in it.
CallQuery(t) ==
    /\ LoopFree
    /\ t_pc[t] = "new"
    /\ t_op' = [t_op EXCEPT ![t] = "query_executions"]
    /\ t_pc' = [t_pc EXCEPT ![t] = "counting"]
    /\ loop_access' = t
    /\ UNCHANGED <<_work_queue, worker>>
    /\ UNCHANGED notWorkerVars

\* count() returns: the query is submitted to the executor and awaited.
CountReturns(t) ==
    /\ t_pc[t] = "counting"
    /\ loop_access = t
    /\ loop_access' = 0
    /\ _work_queue' = Append(_work_queue, t)
    /\ t_pc' = [t_pc EXCEPT ![t] = "awaiting"]
    /\ UNCHANGED <<t_op, worker>>
    /\ UNCHANGED notWorkerVars

\* ThreadPoolExecutor(max_workers=1): the worker thread takes the oldest
\* submitted function when it is idle.
WorkerTake ==
    /\ worker = 0
    /\ _work_queue # <<>>
    /\ worker' = Head(_work_queue)
    /\ _work_queue' = Tail(_work_queue)
    /\ t_pc' = [t_pc EXCEPT ![Head(_work_queue)] = "running"]
    /\ UNCHANGED <<t_op, loop_access>>
    /\ UNCHANGED notWorkerVars

\* The function returns (or raises) on the worker thread; its future is
\* resolved and the awaiting call returns when the loop next runs it.
WorkerFinish ==
    /\ worker # 0
    /\ t_pc' = [t_pc EXCEPT ![worker] = "done"]
    /\ worker' = 0
    /\ UNCHANGED <<t_op, _work_queue, loop_access>>
    /\ UNCHANGED notWorkerVars

NextWorker ==
    \/ \E t \in 1..MaxCalls : CallStore(t)
    \/ \E t \in 1..MaxCalls : CallQuery(t)
    \/ \E t \in 1..MaxCalls : CountReturns(t)
    \/ WorkerTake
    \/ WorkerFinish

SpecWorker == Init /\ [][NextWorker]_vars

\* ======================================================================
\* Model group selection (core/hybrid_router.py)
\* ======================================================================

MinTotalGb == 8

MinAvailableGb == 4

\* Everything but the selection helper.
notSelectVars ==
    <<engineVars, sigPending, ipcVars, obsVars, logVars, cadenceVars,
     routerVars, hybridVars, seqVars, snapVars, queueVars, sandboxVars,
     memoryVars, workerVars, cloudVars, btrfsVars, bootVars, execVars>>

\* Variant: the group depends on the total only.
select_model_groupM(total, used) ==
    IF total >= MinTotalGb THEN "local/llama3" ELSE "gemini/flash"

\* select_model_group(vram_total_gb, vram_used_gb), in whole GB.
select_model_group(total, used) ==
    IF total >= MinTotalGb /\ total - used >= MinAvailableGb
    THEN "local/llama3"
    ELSE "gemini/flash"

\* The resource state handed to the helper: no GPU is total 0, used 0.
SelectInit ==
    /\ vram_total_gb \in 0..MaxVram
    /\ vram_used_gb \in 0..vram_total_gb
    /\ sel_result = "none"
    /\ sel_calls = 0

InitSelect ==
    /\ EngineInit
    /\ LogInit
    /\ CadenceIdle
    /\ RouterIdle
    /\ HybridIdle
    /\ SeqInit
    /\ SnapInit
    /\ QueueInit
    /\ SandboxInit
    /\ MemoryInit
    /\ WorkerInit
    /\ CloudIdle
    /\ BtrfsIdle
    /\ SelectInit
    /\ BootIdle
    /\ ExecIdle

\* One call of select_model_group with the current resource state.
SelectCall ==
    /\ sel_calls < MaxSelects
    /\ sel_result' = select_model_group(vram_total_gb, vram_used_gb)
    /\ sel_calls' = sel_calls + 1
    /\ UNCHANGED <<vram_total_gb, vram_used_gb>>
    /\ UNCHANGED notSelectVars

NextSelect ==
    \/ SelectCall

SpecSelect == InitSelect /\ [][NextSelect]_vars

\* ======================================================================
\* Cloud bridge (core/cloud.py)
\* ======================================================================

MAX_RETRIES == 3

\* How one session.post attempt ends: the response is accepted and its
\* JSON body read, or an exception is raised by the connection, by the
\* 15 s timeout, by raise_for_status or by resp.json().
PostOutcomes == {"ok", "connect_error", "timeout", "http_error", "bad_json"}

\* Everything but the cloud bridge.
notCloudVars ==
    <<engineVars, sigPending, ipcVars, obsVars, logVars, cadenceVars,
     routerVars, hybridVars, seqVars, snapVars, queueVars, sandboxVars,
     memoryVars, workerVars, btrfsVars, selectVars, bootVars, execVars>>

\* A call of emit_telemetry(payload) is about to start; the import of
\* aiohttp at module load succeeded or did not.
CloudInit ==
    /\ e_pc = "called"
    /\ _AIOHTTP_AVAILABLE \in BOOLEAN
    /\ attempt = 0
    /\ post_outcomes = <<>>
    /\ e_result = "none"

InitCloud ==
    /\ EngineInit
    /\ LogInit
    /\ CadenceIdle
    /\ RouterIdle
    /\ HybridIdle
    /\ SeqInit
    /\ SnapInit
    /\ QueueInit
    /\ SandboxInit
    /\ MemoryInit
    /\ WorkerInit
    /\ CloudInit
    /\ BtrfsIdle
    /\ SelectIdle
    /\ BootIdle
    /\ ExecIdle

\* Variant: the exception of _post is not caught by emit_telemetry.
OnPostRaisedM == "raised"

\* except Exception in emit_telemetry: the failure is logged and False
\* is returned.
OnPostRaised == "False"

\* emit_telemetry up to the first POST: returns False when aiohttp is
\* missing; otherwise stamps the payload, opens a session and enters
\* _post with attempt 1.
emit_telemetry ==
    /\ e_pc = "called"
    /\ IF ~_AIOHTTP_AVAILABLE
       THEN /\ e_result' = "False"
            /\ e_pc' = "done"
            /\ UNCHANGED attempt
       ELSE /\ attempt' = 1
            /\ e_pc' = "posting"
            /\ UNCHANGED e_result
    /\ UNCHANGED <<_AIOHTTP_AVAILABLE, post_outcomes>>
    /\ UNCHANGED notCloudVars

\* One pass of the loop of _post: a successful POST returns the body and
\* emit_telemetry returns True; a failed one is re-raised on the last
\* attempt and otherwise followed by the back-off sleep.
PostAttempt ==
    /\ e_pc = "posting"
    /\ \E outcome \in PostOutcomes :
          /\ post_outcomes' = Append(post_outcomes, outcome)
          /\ IF outcome = "ok"
             THEN /\ e_result' = "True"
                  /\ e_pc' = "done"
             ELSE IF attempt = MAX_RETRIES
             THEN /\ e_result' = OnPostRaised
                  /\ e_pc' = "done"
             ELSE /\ e_pc' = "backoff"
                  /\ UNCHANGED e_result
    /\ UNCHANGED <<_AIOHTTP_AVAILABLE, attempt>>
    /\ UNCHANGED notCloudVars

\* asyncio.sleep(RETRY_BACKOFF ** attempt) returns; the loop continues
\* with the next attempt.
BackoffDone ==
    /\ e_pc = "backoff"
    /\ attempt' = attempt + 1
    /\ e_pc' = "posting"
    /\ UNCHANGED <<_AIOHTTP_AVAILABLE, post_outcomes, e_result>>
    /\ UNCHANGED notCloudVars

NextCloud ==
    \/ emit_telemetry
    \/ PostAttempt
    \/ BackoffDone

SpecCloud == InitCloud /\ [][NextCloud]_vars

\* ======================================================================
\* BTRFS snapshot manager (core/btrfs_manager.py)
\* ======================================================================

\* Characters of the names in the model: a letter, a digit, the
\* underscore, and three characters outside [a-zA-Z0-9_].
Chars == {"a", "7", "_", ";", "/", "\n"}

\* The character class [a-zA-Z0-9_].
SafeChars == {"a", "7", "_"}

\* Names of at most MaxNameLen characters.
Names == UNION {[1..n -> Chars] : n \in 0..MaxNameLen}

MaxNameLength == 128

\* re.compile(r"^[class]+$").match(s): one or more characters of the
\* class from the start, up to a position where '$' matches; without
\* re.MULTILINE '$' matches at the end of the string and also just
\* before a newline that is the last character.
Matches(class, s) ==
    \E n \in 1..Len(s) :
       /\ \A k \in 1..n : s[k] \in class
       /\ \/ n = Len(s)
          \/ n = Len(s) - 1 /\ s[Len(s)] = "\n"

\* _sanitize_name(name) returns the name (TRUE) or raises ValueError
\* (FALSE): empty, not matching _SAFE_NAME_RE, or longer than 128.
_sanitize_name(name) ==
    /\ name # <<>>
    /\ Matches(SafeChars, name)
    /\ Len(name) <= MaxNameLength

\* What `btrfs inspect-internal rootid` may print.
RawIds ==
    {<<"2", "5", "\n">>, <<"0", "\n">>, <<"0", "7">>, <<>>,
     <<"-", "5">>, <<"5", " ", "/">>, <<"I", "D", " ", "5">>}

Digits == {"0", "1", "2", "3", "4", "5", "6", "7", "8", "9"}

Whitespace == {" ", "\n", "\t"}

\* str.strip(): leading and trailing whitespace removed.
RECURSIVE strip(_)
strip(s) ==
    IF s = <<>> THEN s
    ELSE IF Head(s) \in Whitespace THEN strip(Tail(s))
    ELSE IF s[Len(s)] \in Whitespace THEN strip(SubSeq(s, 1, Len(s) - 1))
    ELSE s

DigitValue(c) ==
    CASE c = "0" -> 0 [] c = "1" -> 1 [] c = "2" -> 2 [] c = "3" -> 3
      [] c = "4" -> 4 [] c = "5" -> 5 [] c = "6" -> 6 [] c = "7" -> 7
      [] c = "8" -> 8 [] c = "9" -> 9

\* int(cleaned) for a string of decimal digits.
RECURSIVE int(_)
int(s) ==
    IF s = <<>> THEN 0
    ELSE 10 * int(SubSeq(s, 1, Len(s) - 1)) + DigitValue(s[Len(s)])

\* _validate_subvol_id(raw_id): the positive integer, or 0 where the
\* code raises ValueError (not all digits after strip, or not positive).
_validate_subvol_id(raw_id) ==
    IF Matches(Digits, strip(raw_id)) /\ int(strip(raw_id)) > 0
    THEN int(strip(raw_id))
    ELSE 0

\* How a subprocess.run(check=True, timeout=...) call ends.
RunOutcomes == {"ok", "CalledProcessError", "TimeoutExpired"}

\* Everything but the snapshot manager.
notBtrfsVars ==
    <<engineVars, sigPending, ipcVars, obsVars, logVars, cadenceVars,
     routerVars, hybridVars, seqVars, snapVars, queueVars, sandboxVars,
     memoryVars, workerVars, cloudVars, selectVars, bootVars, execVars>>

\* A call of create_snapshot(label) or of
\* rollback_to_snapshot(snapshot_name, reboot=...) is about to start.
BtrfsInit ==
    /\ b_pc = "sanitize"
    /\ b_op \in {"create_snapshot", "rollback_to_snapshot"}
    /\ b_name \in Names
    /\ b_reboot \in BOOLEAN
    /\ b_op = "create_snapshot" => b_reboot = FALSE
    /\ subvol_id = -1
    /\ commands = <<>>
    /\ b_steps = <<>>
    /\ failed_step = "none"
    /\ b_result = "none"
    /\ reboot_initiated = FALSE

InitBtrfs ==
    /\ EngineInit
    /\ LogInit
    /\ CadenceIdle
    /\ RouterIdle
    /\ HybridIdle
    /\ SeqInit
    /\ SnapInit
    /\ QueueInit
    /\ SandboxInit
    /\ MemoryInit
    /\ WorkerInit
    /\ CloudIdle
    /\ BtrfsInit
    /\ SelectIdle
    /\ BootIdle
    /\ ExecIdle

\* The call returns `outcome` (or raises) after step `step` failed.
Fail(step, outcome) ==
    /\ failed_step' = step
    /\ b_result' = outcome
    /\ b_pc' = "done"

\* Step 1 of both functions.  create_snapshot sanitizes a non-empty
\* label only; rollback_to_snapshot sanitizes every name.
Sanitize ==
    /\ b_pc = "sanitize"
    /\ b_steps' = Append(b_steps, "sanitize")
    /\ IF b_op = "create_snapshot" /\ b_name = <<>>
       THEN /\ b_pc' = "preflight"
            /\ UNCHANGED <<failed_step, b_result>>
       ELSE IF _sanitize_name(b_name)
       THEN /\ b_pc' = IF b_op = "create_snapshot" THEN "preflight"
                       ELSE "exists"
            /\ UNCHANGED <<failed_step, b_result>>
       ELSE Fail("sanitize", "validation_error")
    /\ UNCHANGED <<b_op, b_name, b_reboot, subvol_id, commands,
                   reboot_initiated>>
    /\ UNCHANGED notBtrfsVars

\* create_snapshot: is_btrfs_available() runs `btrfs filesystem show /`
\* (never raises), then _ensure_snapshot_root() may run pkexec mkdir; its
\* result is ignored.
Preflight ==
    /\ b_pc = "preflight"
    /\ b_steps' = Append(b_steps, "preflight")
    /\ \E available \in BOOLEAN, rootExists \in BOOLEAN :
          IF ~available
          THEN /\ commands' = Append(commands,
                      [bin |-> "btrfs", verb |-> "filesystem show",
                       privileged |-> FALSE, name |-> <<>>, id |-> 0])
               /\ Fail("preflight", "btrfs_not_available")
          ELSE /\ commands' =
                     commands \o
                     <<[bin |-> "btrfs", verb |-> "filesystem show",
                        privileged |-> FALSE, name |-> <<>>, id |-> 0]>> \o
                     (IF rootExists THEN <<>>
                      ELSE <<[bin |-> "mkdir", verb |-> "-p",
                              privileged |-> TRUE, name |-> <<>>, id |-> 0]>>)
               /\ b_pc' = "snapshot"
               /\ UNCHANGED <<failed_step, b_result>>
    /\ UNCHANGED <<b_op, b_name, b_reboot, subvol_id, reboot_initiated>>
    /\ UNCHANGED notBtrfsVars

\* create_snapshot: pkexec btrfs subvolume snapshot / <snap_path>; the
\* path contains the label.  Every exception becomes a FAILURE result.
Snapshot ==
    /\ b_pc = "snapshot"
    /\ b_steps' = Append(b_steps, "snapshot")
    /\ commands' = Append(commands,
           [bin |-> "btrfs", verb |-> "subvolume snapshot",
            privileged |-> TRUE, name |-> b_name, id |-> 0])
    /\ \E outcome \in RunOutcomes :
          IF outcome = "ok"
          THEN /\ b_result' = "success"
               /\ b_pc' = "done"
               /\ UNCHANGED failed_step
          ELSE Fail("snapshot", "failure")
    /\ UNCHANGED <<b_op, b_name, b_reboot, subvol_id, reboot_initiated>>
    /\ UNCHANGED notBtrfsVars

\* rollback step 2: Path(snap_path).exists().
VerifyExists ==
    /\ b_pc = "exists"
    /\ b_steps' = Append(b_steps, "exists")
    /\ \E exists \in BOOLEAN :
          IF exists
          THEN /\ b_pc' = "rootid"
               /\ UNCHANGED <<failed_step, b_result>>
          ELSE Fail("exists", "failure")
    /\ UNCHANGED <<b_op, b_name, b_reboot, subvol_id, commands,
                   reboot_initiated>>
    /\ UNCHANGED notBtrfsVars

\* rollback step 3: get_snapshot_id(snap_path) runs pkexec btrfs
\* inspect-internal rootid and validates the output.  It turns
\* CalledProcessError and ValueError into RuntimeError, which
\* rollback_to_snapshot catches; TimeoutExpired is caught by neither.
QueryRootid ==
    /\ b_pc = "rootid"
    /\ b_steps' = Append(b_steps, "rootid")
    /\ commands' = Append(commands,
           [bin |-> "btrfs", verb |-> "inspect-internal rootid",
            privileged |-> TRUE, name |-> b_name, id |-> 0])
    /\ \E outcome \in RunOutcomes, raw_id \in RawIds :
          IF outcome = "TimeoutExpired"
          THEN /\ Fail("rootid", "raised")
               /\ UNCHANGED subvol_id
          ELSE IF outcome = "CalledProcessError"
                  \/ _validate_subvol_id(raw_id) = 0
          THEN /\ Fail("rootid", "failure")
               /\ UNCHANGED subvol_id
          ELSE /\ subvol_id' = _validate_subvol_id(raw_id)
               /\ b_pc' = "set_default"
               /\ UNCHANGED <<failed_step, b_result>>
    /\ UNCHANGED <<b_op, b_name, b_reboot, reboot_initiated>>
    /\ UNCHANGED notBtrfsVars

\* rollback step 4: set_default_subvolume(subvol_id) re-checks the id,
\* runs pkexec btrfs subvolume set-default <id> / and turns
\* CalledProcessError into RuntimeError; rollback_to_snapshot catches
\* ValueError and RuntimeError, not TimeoutExpired.
SetDefault ==
    /\ b_pc = "set_default"
    /\ b_steps' = Append(b_steps, "set_default")
    /\ IF subvol_id <= 0
       THEN /\ Fail("set_default", "failure")
            /\ UNCHANGED commands
       ELSE /\ commands' = Append(commands,
                   [bin |-> "btrfs", verb |-> "subvolume set-default",
                    privileged |-> TRUE, name |-> <<>>, id |-> subvol_id])
            /\ \E outcome \in RunOutcomes :
                  IF outcome = "TimeoutExpired"
                  THEN Fail("set_default", "raised")
                  ELSE IF outcome = "CalledProcessError"
                  THEN Fail("set_default", "failure")
                  ELSE IF b_reboot
                  THEN /\ b_pc' = "reboot"
                       /\ UNCHANGED <<failed_step, b_result>>
                  ELSE /\ b_pc' = "done"
                       /\ b_result' = "success"
                       /\ UNCHANGED failed_step
    /\ UNCHANGED <<b_op, b_name, b_reboot, subvol_id, reboot_initiated>>
    /\ UNCHANGED notBtrfsVars

\* rollback step 5 (reboot=True only): systemctl reboot; every exception
\* is logged and the result is SUCCESS either way.
Reboot ==
    /\ b_pc = "reboot"
    /\ b_steps' = Append(b_steps, "reboot")
    /\ commands' = Append(commands,
           [bin |-> "systemctl", verb |-> "reboot",
            privileged |-> FALSE, name |-> <<>>, id |-> 0])
    /\ \E outcome \in RunOutcomes :
          /\ reboot_initiated' = (outcome = "ok")
          /\ failed_step' = IF outcome = "ok" THEN failed_step ELSE "reboot"
    /\ b_result' = "success"
    /\ b_pc' = "done"
    /\ UNCHANGED <<b_op, b_name, b_reboot, subvol_id>>
    /\ UNCHANGED notBtrfsVars

NextBtrfs ==
    \/ Sanitize
    \/ Preflight
    \/ Snapshot
    \/ VerifyExists
    \/ QueryRootid
    \/ SetDefault
    \/ Reboot

SpecBtrfs == InitBtrfs /\ [][NextBtrfs]_vars

\* The run() task is scheduled whenever it can step, and the event loop
\* runs a pending signal callback.  No fairness for the sleep's timeout.
FairSpec == Spec /\ WF_vars(RunStep) /\ WF_vars(HandleShutdown)

TypeOK ==
    /\ pc \in {"boot", "loop", "call", "body", "watchdog", "sleep",
               "shutdown", "done", "hung"}
    /\ nxt \in 0..NumPhases
    /\ status \in DaemonStatus
    /\ current_phase \in KriyaPhase
    /\ iteration \in 0..MaxIter
    /\ last_error \in {None, ErrText}
    /\ shutdown_event \in BOOLEAN
    /\ sigPending \in BOOLEAN
    /\ state_ref \in BOOLEAN
    /\ shutdown_requested \in BOOLEAN
    /\ response \in Responses

\* ======================================================================
\* The telemetry tail buffer (KriyaEngine._log)
\* ======================================================================

\* Everything but the log buffer.
notLogVars ==
    <<engineVars, sigPending, ipcVars, obsVars, cadenceVars, routerVars,
     hybridVars, seqVars, snapVars, queueVars, sandboxVars, memoryVars,
     workerVars, cloudVars, btrfsVars, selectVars, bootVars, execVars>>

\* Variant: the trim keeps the first LogCapacity lines, dropping the newest.
_logM(tail, message) ==
    LET appended == Append(tail, message)
    IN  IF Len(appended) > LogCapacity
        THEN SubSeq(appended, 1, LogCapacity)
        ELSE appended

\* self.log_tail.append(message);
\* if len(self.log_tail) > 50: self.log_tail = self.log_tail[-50:]
_log(tail, message) ==
    LET appended == Append(tail, message)
    IN  IF Len(appended) > LogCapacity
        THEN SubSeq(appended, Len(appended) - LogCapacity + 1, Len(appended))
        ELSE appended

\* One call of self._log; the k-th call logs the message k.
Log ==
    /\ pushed < MaxPush
    /\ pushed' = pushed + 1
    /\ log_tail' = _log(log_tail, pushed + 1)
    /\ UNCHANGED notLogVars

NextLog == Log

SpecLog == Init /\ [][NextLog]_vars

\* ======================================================================
\* The loop cycle with wall-clock time (KriyaEngine.run, the while loop)
\* for a daemon running under systemd (a notifier exists).
\* ======================================================================

\* Everything but the timed loop.
notCadenceVars ==
    <<engineVars, sigPending, ipcVars, obsVars, logVars, routerVars,
     hybridVars, seqVars, snapVars, queueVars, sandboxVars, memoryVars,
     workerVars, cloudVars, btrfsVars, selectVars, bootVars, execVars>>

\* self.loop_interval = daemon_config.get("loop_interval_sec", 10)
CadenceInit ==
    /\ c_pc = "loop"
    /\ now = 0
    /\ loop_interval \in LoopIntervals
    /\ c_iter = 0
    /\ c_shutdown = FALSE
    /\ iterStart = 0
    /\ prevStart = -1
    /\ elapsed = 0
    /\ slept = -1
    /\ lastPing = -1
    /\ pingGap = -1
    /\ c_pings = 0

InitCadence ==
    /\ EngineInit
    /\ LogInit
    /\ CadenceInit
    /\ RouterIdle
    /\ HybridIdle
    /\ SeqInit
    /\ SnapInit
    /\ QueueInit
    /\ SandboxInit
    /\ MemoryInit
    /\ WorkerInit
    /\ CloudIdle
    /\ BtrfsIdle
    /\ SelectIdle
    /\ BootIdle
    /\ ExecIdle

\* Variant: the sleep is shortened by the time the phases took.
SleepForM(interval, spent) ==
    IF interval - spent > 0 THEN interval - spent ELSE 0

\* asyncio.wait_for(self._shutdown_event.wait(), timeout=self.loop_interval):
\* the timeout does not depend on the time the phases took.
SleepFor(interval, spent) == interval

\* while not self._shutdown_event.is_set(): self.iteration += 1
CycleStart ==
    /\ c_pc = "loop"
    /\ ~c_shutdown
    /\ c_iter < MaxCycles
    /\ c_iter' = c_iter + 1
    /\ prevStart' = IF c_iter = 0 THEN -1 ELSE iterStart
    /\ iterStart' = now
    /\ c_pc' = "phases"
    /\ UNCHANGED <<now, loop_interval, c_shutdown, elapsed, slept, lastPing,
                   pingGap, c_pings>>
    /\ UNCHANGED notCadenceVars

\* The try block with the four phases, which takes some time d.
CyclePhases ==
    /\ c_pc = "phases"
    /\ \E d \in PhaseTimes :
          /\ now' = now + d
          /\ elapsed' = d
    /\ c_pc' = "ping"
    /\ UNCHANGED <<loop_interval, c_iter, c_shutdown, iterStart, prevStart,
                   slept, lastPing, pingGap, c_pings>>
    /\ UNCHANGED notCadenceVars

\* Variant: the notification is forwarded only when half of WatchdogSec
\* has passed since the last one that was forwarded.
CyclePingM ==
    /\ c_pc = "ping"
    /\ IF lastPing = -1 \/ 2 * (now - lastPing) >= WatchdogSec
       THEN /\ lastPing' = now
            /\ pingGap' = IF lastPing = -1 THEN -1 ELSE now - lastPing
            /\ c_pings' = c_pings + 1
       ELSE UNCHANGED <<lastPing, pingGap, c_pings>>
    /\ c_pc' = "sleep"
    /\ UNCHANGED <<now, loop_interval, c_iter, c_shutdown, iterStart,
                   prevStart, elapsed, slept>>
    /\ UNCHANGED notCadenceVars

\* self._notify("WATCHDOG=1"): forwarded unconditionally.
CyclePing ==
    /\ c_pc = "ping"
    /\ lastPing' = now
    /\ pingGap' = IF lastPing = -1 THEN -1 ELSE now - lastPing
    /\ c_pings' = c_pings + 1
    /\ c_pc' = "sleep"
    /\ UNCHANGED <<now, loop_interval, c_iter, c_shutdown, iterStart,
                   prevStart, elapsed, slept>>
    /\ UNCHANGED notCadenceVars

\* wait_for raises asyncio.TimeoutError when its timeout has passed: continue.
CycleSleepTimeout ==
    /\ c_pc = "sleep"
    /\ slept' = SleepFor(loop_interval, elapsed)
    /\ now' = now + SleepFor(loop_interval, elapsed)
    /\ c_pc' = "loop"
    /\ UNCHANGED <<loop_interval, c_iter, c_shutdown, iterStart, prevStart,
                   elapsed, lastPing, pingGap, c_pings>>
    /\ UNCHANGED notCadenceVars

\* A shutdown signal is handled w seconds into the sleep: wait_for
\* returns, break.
CycleSleepWoken ==
    /\ c_pc = "sleep"
    /\ \E w \in WakeTimes :
          /\ w < loop_interval
          /\ now' = now + w
          /\ slept' = w
    /\ c_shutdown' = TRUE
    /\ c_pc' = "exit"
    /\ UNCHANGED <<loop_interval, c_iter, iterStart, prevStart, elapsed,
                   lastPing, pingGap, c_pings>>
    /\ UNCHANGED notCadenceVars

NextCadence ==
    \/ CycleStart
    \/ CyclePhases
    \/ CyclePing
    \/ CycleSleepTimeout
    \/ CycleSleepWoken

SpecCadence == InitCadence /\ [][NextCadence]_vars

\* ======================================================================
\* InferenceRouter (router.py): one call of complete() or stream()
\* ======================================================================

\* Everything but the router.
notRouterVars ==
    <<engineVars, sigPending, ipcVars, obsVars, logVars, cadenceVars,
     hybridVars, seqVars, snapVars, queueVars, sandboxVars, memoryVars,
     workerVars, cloudVars, btrfsVars, selectVars, bootVars, execVars>>

\* Python truth value of a configuration entry.
Truthy(v) == v # None /\ v # ""

\* Variant: no emergency candidate when the configuration names no model.
_resolve_routing_priorityM(cap, cfg) ==
    LET capable == IF Truthy(cfg.capable_model)
                   THEN <<"ollama/" \o cfg.capable_model>> ELSE <<>>
        minimum == IF Truthy(cfg.minimum_model)
                   THEN <<"ollama/" \o cfg.minimum_model>> ELSE <<>>
        local == IF cap = "LOCAL_CAPABLE" THEN capable \o minimum
                 ELSE IF cap = "LOCAL_MINIMUM" THEN minimum
                 ELSE <<>>
        primary == IF Truthy(cfg.primary_model)
                   THEN <<cfg.primary_model>> ELSE <<>>
        fallback == IF Truthy(cfg.fallback_model)
                    THEN <<cfg.fallback_model>> ELSE <<>>
    IN  local \o primary \o fallback

\* Variant: the minimum model is put before the capable one.
LocalCandidatesM(cap, capable, minimum) ==
    IF cap = "LOCAL_CAPABLE" THEN minimum \o capable
    ELSE IF cap = "LOCAL_MINIMUM" THEN minimum
    ELSE <<>>

\* The if/elif on active_system_capability: the local part of the plan.
LocalCandidates(cap, capable, minimum) ==
    IF cap = "LOCAL_CAPABLE" THEN capable \o minimum
    ELSE IF cap = "LOCAL_MINIMUM" THEN minimum
    ELSE <<>>

\* InferenceRouter._resolve_routing_priority
_resolve_routing_priority(cap, cfg) ==
    LET capable == IF Truthy(cfg.capable_model)
                   THEN <<"ollama/" \o cfg.capable_model>> ELSE <<>>
        minimum == IF Truthy(cfg.minimum_model)
                   THEN <<"ollama/" \o cfg.minimum_model>> ELSE <<>>
        local == LocalCandidates(cap, capable, minimum)
        primary == IF Truthy(cfg.primary_model)
                   THEN <<cfg.primary_model>> ELSE <<>>
        fallback == IF Truthy(cfg.fallback_model)
                    THEN <<cfg.fallback_model>> ELSE <<>>
        routing_plan == local \o primary \o fallback
    IN  IF routing_plan = <<>> THEN <<EmergencyModel>> ELSE routing_plan

\* Variant: the loop skips a candidate after a failure.
NextCandidateM(i) == i + 2

\* for model_str in route_path: the candidate after position i.
NextCandidate(i) == i + 1

\* Variant: only the first failure is kept.
RecordErrorM(last, e) == IF last = NoError THEN e ELSE last

\* last_error = e
RecordError(last, e) == e

\* A request arrives: the capability the profiler reports, the
\* configuration the router was built with, and the entry point called.
RouterInit ==
    /\ r_pc = "start"
    /\ r_mode \in RouterModes
    /\ capability \in SystemCapability
    /\ config \in Configs
    /\ route_path = <<>>
    /\ idx = 0
    /\ r_last_error = NoError
    /\ r_result = NoResult
    /\ attempts = <<>>
    /\ outcomes = <<>>
    /\ chunks = 0
    /\ yielded = <<>>

InitRouter ==
    /\ EngineInit
    /\ LogInit
    /\ CadenceIdle
    /\ RouterInit
    /\ HybridIdle
    /\ SeqInit
    /\ SnapInit
    /\ QueueInit
    /\ SandboxInit
    /\ MemoryInit
    /\ WorkerInit
    /\ CloudIdle
    /\ BtrfsIdle
    /\ SelectIdle
    /\ BootIdle
    /\ ExecIdle

\* Variant: the candidate that served the previous request is tried first.
ChainForM(cap, cfg, model) ==
    IF model \in {"NONE", "FAILED"}
    THEN _resolve_routing_priority(cap, cfg)
    ELSE <<model>> \o _resolve_routing_priority(cap, cfg)

\* The chain of a request: self.current_model is not consulted.
ChainFor(cap, cfg, model) == _resolve_routing_priority(cap, cfg)

\* route_path = self._resolve_routing_priority(); last_error = None
Resolve ==
    /\ r_pc = "start"
    /\ route_path' = ChainFor(capability, config, current_model)
    /\ idx' = 1
    /\ r_last_error' = NoError
    /\ r_pc' = "try"
    /\ UNCHANGED <<r_mode, capability, config, r_result, attempts, outcomes,
                   chunks, yielded>>
    /\ UNCHANGED notRouterVars

\* The loop body up to the await of acompletion(model=model_str, ...).
Attempt ==
    /\ r_pc = "try"
    /\ idx <= Len(route_path)
    /\ attempts' = Append(attempts, route_path[idx])
    /\ r_pc' = "await"
    /\ UNCHANGED <<r_mode, capability, config, route_path, idx, r_last_error,
                   r_result, outcomes, chunks, yielded>>
    /\ UNCHANGED notRouterVars

\* complete(): the response carries text: return text.
AttemptText ==
    /\ r_pc = "await"
    /\ r_mode = "complete"
    /\ outcomes' = Append(outcomes, "text")
    /\ r_result' = [kind |-> "text", cand |-> idx, error |-> NoError]
    /\ r_pc' = "returned"
    /\ UNCHANGED <<r_mode, capability, config, route_path, idx, r_last_error,
                   attempts, chunks, yielded>>
    /\ UNCHANGED notRouterVars

\* except Exception as e: last_error = e, and on to the next candidate.
\* The exception is raised by acompletion or, in complete(), by the
\* statements that read the text of the response.
AttemptFail ==
    /\ r_pc = "await"
    /\ \E kind \in FailureKinds :
          /\ kind = "malformed" => r_mode = "complete"
          /\ outcomes' = Append(outcomes, kind)
          /\ r_last_error' =
                 RecordError(r_last_error, [cand |-> idx, kind |-> kind])
    /\ idx' = NextCandidate(idx)
    /\ r_pc' = "try"
    /\ UNCHANGED <<r_mode, capability, config, route_path, r_result,
                   attempts, chunks, yielded>>
    /\ UNCHANGED notRouterVars

\* The candidate never responds: the await in the loop body has no
\* timeout, so the call makes no further step.
AttemptHang ==
    /\ r_pc \in {"await", "open"}
    /\ r_pc' = "blocked"
    /\ UNCHANGED <<r_mode, capability, config, route_path, idx, r_last_error,
                   r_result, attempts, outcomes, chunks, yielded>>
    /\ UNCHANGED notRouterVars

\* The loop is over without a return: raise RuntimeError(... {last_error}).
Exhausted ==
    /\ r_pc = "try"
    /\ idx > Len(route_path)
    /\ r_result' = [kind |-> "RuntimeError", cand |-> 0,
                    error |-> r_last_error]
    /\ r_pc' = "raised"
    /\ UNCHANGED <<r_mode, capability, config, route_path, idx, r_last_error,
                   attempts, outcomes, chunks, yielded>>
    /\ UNCHANGED notRouterVars

\* stream(): acompletion returned the response stream.
StreamOpen ==
    /\ r_pc = "await"
    /\ r_mode = "stream"
    /\ chunks' = 0
    /\ r_pc' = "open"
    /\ UNCHANGED <<r_mode, capability, config, route_path, idx, r_last_error,
                   r_result, attempts, outcomes, yielded>>
    /\ UNCHANGED notRouterVars

\* async for chunk in response_stream: a chunk with content is yielded
\* to the caller, one without is dropped.
StreamChunk ==
    /\ r_pc = "open"
    /\ chunks < MaxChunks
    /\ chunks' = chunks + 1
    /\ \E content \in BOOLEAN :
          yielded' = IF content THEN Append(yielded, idx) ELSE yielded
    /\ UNCHANGED <<r_pc, r_mode, capability, config, route_path, idx,
                   r_last_error, r_result, attempts, outcomes>>
    /\ UNCHANGED notRouterVars

\* The stream is exhausted: return.
StreamEnd ==
    /\ r_pc = "open"
    /\ outcomes' = Append(outcomes, "text")
    /\ r_result' = [kind |-> "end", cand |-> idx, error |-> NoError]
    /\ r_pc' = "returned"
    /\ UNCHANGED <<r_mode, capability, config, route_path, idx, r_last_error,
                   attempts, chunks, yielded>>
    /\ UNCHANGED notRouterVars

\* The stream raises while it is iterated: the same except clause runs,
\* whether or not chunks were yielded, and the loop goes on.
StreamBreak ==
    /\ r_pc = "open"
    /\ outcomes' = Append(outcomes, "error")
    /\ r_last_error' =
           RecordError(r_last_error, [cand |-> idx, kind |-> "error"])
    /\ idx' = NextCandidate(idx)
    /\ r_pc' = "try"
    /\ UNCHANGED <<r_mode, capability, config, route_path, r_result,
                   attempts, chunks, yielded>>
    /\ UNCHANGED notRouterVars

NextRouter ==
    \/ Resolve
    \/ Attempt
    \/ AttemptText
    \/ AttemptFail
    \/ AttemptHang
    \/ Exhausted
    \/ StreamOpen
    \/ StreamChunk
    \/ StreamEnd
    \/ StreamBreak

SpecRouter == InitRouter /\ [][NextRouter]_vars

\* The router takes every step its code can take; nothing makes a
\* candidate respond.
FairSpecRouter == SpecRouter /\ WF_vars(NextRouter)

\* Everything but the router and its history of requests.
notRouterSeqVars ==
    <<engineVars, sigPending, ipcVars, obsVars, logVars, cadenceVars,
     hybridVars, snapVars, queueVars, sandboxVars, memoryVars, workerVars,
     cloudVars, btrfsVars, selectVars, bootVars, execVars>>

\* The candidates whose attempt failed in the request that just ended.
FailedNow ==
    {attempts[i] : i \in {j \in 1..Len(outcomes) : outcomes[j] \in FailureKinds}}

\* What the ended request left in self.current_model.
ModelLeft ==
    IF r_pc = "raised" THEN "FAILED" ELSE attempts[Len(attempts)]

\* The next call of complete() or stream() on the same router, after the
\* previous one returned or raised: the profiler may report another
\* capability; self.config is the same; the locals start afresh.
NewRequest ==
    /\ r_pc \in {"returned", "raised"}
    /\ requests < MaxRequests
    /\ requests' = requests + 1
    /\ current_model' = ModelLeft
    /\ prevFailed' = prevFailed \cup FailedNow
    /\ r_mode' \in RouterModes
    /\ capability' \in SystemCapability
    /\ route_path' = <<>>
    /\ idx' = 0
    /\ r_last_error' = NoError
    /\ r_result' = NoResult
    /\ attempts' = <<>>
    /\ outcomes' = <<>>
    /\ chunks' = 0
    /\ yielded' = <<>>
    /\ r_pc' = "start"
    /\ UNCHANGED config
    /\ UNCHANGED notRouterSeqVars

NextRouterSeq ==
    \/ NextRouter
    \/ NewRequest

SpecRouterSeq == InitRouter /\ [][NextRouterSeq]_vars

\* ======================================================================
\* hybrid_router.complete(): one call
\* ======================================================================

\* Everything but the hybrid router call.
notHybridVars ==
    <<engineVars, sigPending, ipcVars, obsVars, logVars, cadenceVars,
     routerVars, seqVars, snapVars, queueVars, sandboxVars, memoryVars,
     workerVars, cloudVars, btrfsVars, selectVars, bootVars, execVars>>

\* A call: the arguments, and how the awaited router.acompletion (which
\* runs litellm's own retries and fallbacks) will behave.
HybridInit ==
    /\ h_pc = "call"
    /\ h_timeout \in Timeouts
    /\ h_stream \in BOOLEAN
    /\ h_responds \in BOOLEAN
    /\ h_dur \in AwaitTimes
    /\ h_inner \in InnerOutcomes
    /\ h_clock = 0
    /\ h_result = None

InitHybrid ==
    /\ EngineInit
    /\ LogInit
    /\ CadenceIdle
    /\ RouterIdle
    /\ HybridInit
    /\ SeqInit
    /\ SnapInit
    /\ QueueInit
    /\ SandboxInit
    /\ MemoryInit
    /\ WorkerInit
    /\ CloudIdle
    /\ BtrfsIdle
    /\ SelectIdle
    /\ BootIdle
    /\ ExecIdle

\* Variant: the awaitable is awaited without a deadline.
HasDeadlineM == FALSE

\* asyncio.wait_for(..., timeout=timeout) puts a deadline on the await.
HasDeadline == TRUE

\* router = get_router(); t_start = time.monotonic(); the await starts.
HCall ==
    /\ h_pc = "call"
    /\ h_clock' = 0
    /\ h_pc' = "await"
    /\ UNCHANGED <<h_timeout, h_stream, h_responds, h_dur, h_inner, h_result>>
    /\ UNCHANGED notHybridVars

\* get_router() raises (litellm missing, secrets file not acceptable).
HGetRouterFails ==
    /\ h_pc = "call"
    /\ h_result' = "RuntimeError"
    /\ h_pc' = "raised"
    /\ UNCHANGED <<h_timeout, h_stream, h_responds, h_dur, h_inner, h_clock>>
    /\ UNCHANGED notHybridVars

\* router.acompletion finishes before the deadline: its exception is
\* re-raised; a streaming response is returned as is; otherwise the
\* content is extracted (None becomes "", a response without choices
\* raises RuntimeError).
HAwaitDone ==
    /\ h_pc = "await"
    /\ h_responds
    /\ HasDeadline => h_dur <= h_timeout
    /\ h_clock' = h_dur
    /\ h_result' = IF h_inner = "raises" THEN "Exception"
                   ELSE IF h_stream THEN "stream"
                   ELSE IF h_inner = "malformed" THEN "RuntimeError"
                   ELSE IF h_inner = "no_content" THEN ""
                   ELSE "content"
    /\ h_pc' = IF h_inner = "raises" \/ (~h_stream /\ h_inner = "malformed")
               THEN "raised" ELSE "returned"
    /\ UNCHANGED <<h_timeout, h_stream, h_responds, h_dur, h_inner>>
    /\ UNCHANGED notHybridVars

\* The deadline passes first: wait_for cancels the awaitable and raises
\* asyncio.TimeoutError, which complete() logs and re-raises.
HTimeout ==
    /\ h_pc = "await"
    /\ HasDeadline
    /\ ~h_responds \/ h_dur >= h_timeout
    /\ h_clock' = h_timeout
    /\ h_result' = "TimeoutError"
    /\ h_pc' = "raised"
    /\ UNCHANGED <<h_timeout, h_stream, h_responds, h_dur, h_inner>>
    /\ UNCHANGED notHybridVars

NextHybrid ==
    \/ HCall
    \/ HGetRouterFails
    \/ HAwaitDone
    \/ HTimeout

SpecHybrid == InitHybrid /\ [][NextHybrid]_vars

\* complete() takes its steps, and time passes.
FairSpecHybrid == SpecHybrid /\ WF_vars(NextHybrid)

\* ----------------------------------------------------------------------
\* The litellm Router configuration built by hybrid_router._build_router
\* ----------------------------------------------------------------------

\* "timeout": 30 of the two local deployments.
LocalTimeout == 30

\* num_retries=2
NumRetries == 2

\* retry_after=2
RetryAfter == 2

\* model_list: the model group and the timeout of each deployment.
ModelList ==
    << [model_name |-> "local/llama3", timeout |-> LocalTimeout],
       [model_name |-> "local/llama3", timeout |-> LocalTimeout],
       [model_name |-> "gemini/flash", timeout |-> INFERENCE_TIMEOUT_SECS],
       [model_name |-> "anthropic/haiku", timeout |-> INFERENCE_TIMEOUT_SECS],
       [model_name |-> "openai/gpt4o", timeout |-> INFERENCE_TIMEOUT_SECS] >>

\* fallbacks=[{"local/llama3": [...]}]: the groups tried after a group.
Fallbacks(model) ==
    IF model = "local/llama3"
    THEN <<"gemini/flash", "anthropic/haiku", "openai/gpt4o">>
    ELSE <<>>

\* The default of complete()'s model parameter.
DefaultModel == "local/llama3"

\* The fallback chain of a request for a model group.
FallbackChain(model) == <<model>> \o Fallbacks(model)

\* The largest timeout among the deployments of a group.
GroupTimeout(group) ==
    LET ts == {ModelList[i].timeout :
                  i \in {j \in 1..Len(ModelList) :
                             ModelList[j].model_name = group}}
    IN  CHOOSE t \in ts : \A u \in ts : u <= t

RECURSIVE SumTimeouts(_)
SumTimeouts(chain) ==
    IF chain = <<>> THEN 0
    ELSE GroupTimeout(Head(chain)) + SumTimeouts(Tail(chain))

\* One attempt at every candidate of the chain, each running into its
\* timeout, with retry_after between two attempts.
ChainBudget(model) ==
    SumTimeouts(FallbackChain(model))
        + RetryAfter * (Len(FallbackChain(model)) - 1)

\* ======================================================================
\* Properties
\* ======================================================================

\* The phase sequence the specification prescribes for one iteration.
SpecPhaseOrder ==
    <<"SENSE", "REASON", "ACT", "REMEMBER", "TELEMETRY_EMIT", "PATCH">>

\* C1: in every iteration the phases run exactly once each in the order
\* SENSE, REASON, ACT, REMEMBER, TELEMETRY_EMIT, PATCH: when the iteration
\* reaches its watchdog step, the phases entered are exactly that sequence.
C1_PhaseSequence ==
    pc = "watchdog" => trace = SpecPhaseOrder

\* C2: if a phase raised during the iteration, the error is recorded in
\* last_error and every phase of the iteration has nevertheless been
\* executed by the time the iteration reaches its watchdog step.
C2_LaterPhasesRun ==
    (pc = "watchdog" /\ raisedAt # 0) =>
        (last_error # None /\ Len(trace) = NumPhases)

\* C3: an exception raised by a phase never leaves run(): the task goes on
\* to the watchdog step and the cadence sleep with last_error set, the sleep
\* is left only towards the loop test or the shutdown sequence, and the loop
\* test starts the next iteration unless shutdown has been requested.
C3_NoEscape ==
    /\ [](raisedAt # 0 =>
            /\ pc \in {"watchdog", "sleep", "loop", "shutdown", "done"}
            /\ (pc \in {"watchdog", "sleep"} => last_error = ErrText))
    /\ [][ /\ (pc = "watchdog" /\ pc' # pc) => pc' = "sleep"
           /\ (pc = "sleep" /\ pc' # pc) => pc' \in {"loop", "shutdown"}
           /\ (pc = "loop" /\ pc' # pc /\ ~shutdown_event) =>
                 (pc' = "call" /\ iteration' = iteration + 1) ]_vars

\* C3 witness: iteration 2 is running its first phase while last_error
\* still carries the failure of iteration 1.
C3_Witness ==
    iteration = 2 /\ pc = "body" /\ nxt = 1 /\ last_error = ErrText

\* C4: the number of WATCHDOG=1 notifications sent never exceeds the number
\* of phase executions that have returned.
C4_PingsLeCompletions ==
    pings <= completions

\* C4 witness: two iterations whose second phase raised, so that each
\* contributed one returned phase and one ping.
C4_Witness ==
    pings = 2 /\ completions = 2 /\ pc = "sleep"

\* C5: once a phase call never returns, no further WATCHDOG=1 is sent; a
\* ping is sent only by the run() task at its watchdog step, one at a time.
C5_NoPingWithoutProgress ==
    [][ /\ (pc = "hung" => pings' = pings)
        /\ (pings' # pings => (pc = "watchdog" /\ pings' = pings + 1)) ]_vars

\* C5 witness: a phase hangs after the loop has already pinged.
C5_Witness ==
    pc = "hung" /\ pings >= 1

\* C6: if a shutdown signal arrives while a phase of iteration k is
\* executing, every phase of iteration k has been executed when run() has
\* ended, and no later iteration was started.
C6_IterationCompleted ==
    (pc = "done" /\ reqPhase # 0) =>
        (iteration = reqIter /\ Len(trace) = NumPhases)

\* C7: after a shutdown signal, and unless a phase never returns, run()
\* eventually ends with status OFFLINE, without relying on the sleep's
\* timeout; once the request is handled no further iteration is started.
C7_ShutdownCompletes ==
    /\ (sigPending ~> ((pc = "done" /\ status = "OFFLINE") \/ pc = "hung"))
    /\ [][shutdown_event => iteration' = iteration]_vars

\* C7 witness: run() has ended after a handled shutdown signal.
C7_Witness ==
    pc = "done" /\ status = "OFFLINE" /\ shutdown_event /\ iteration >= 1

\* C8: after the /command endpoint has answered a shutdown request, the
\* iteration counter increases by at most one more.
C8_CommandStopsLoop ==
    cmdIter # -1 => iteration <= cmdIter + 1

\* C9: the iteration counter changes only at the start of a loop cycle,
\* and then by exactly one: it never decreases and never skips a value.
C9_IterationMonotone ==
    [][ iteration' = iteration
        \/ (iteration' = iteration + 1 /\ pc = "loop" /\ pc' = "call") ]_vars

\* C9 witness: the second cycle has started.
C9_Witness ==
    iteration = 2 /\ pc = "call" /\ nxt = 1

\* C10: the status is never OFFLINE while a phase is executing; it becomes
\* OFFLINE only while current_phase is IDLE and the task is at the boundary
\* between iterations; once OFFLINE it never changes.
C10_OfflineTerminal ==
    /\ [](status = "OFFLINE" => pc \notin {"call", "body", "watchdog", "hung"})
    /\ [][ /\ (status = "OFFLINE" => status' = "OFFLINE")
           /\ (status # "OFFLINE" /\ status' = "OFFLINE") =>
                 (current_phase = "IDLE" /\ pc \in {"sleep", "shutdown"}) ]_vars

\* C10 witness: the handler has set OFFLINE during the sleep of an
\* iteration that had ended in ERROR, and run() has not yet resumed.
C10_Witness ==
    status = "OFFLINE" /\ pc = "sleep" /\ last_error = ErrText

\* C13: after an iteration in which a phase raised, last_error is set, and
\* after an iteration in which every phase returned, it is None; a set
\* last_error is cleared only by the return of the last phase of an
\* iteration in which no phase raised.
C13_LastError ==
    /\ [](pc \in {"watchdog", "sleep"} =>
            (raisedAt # 0 <=> last_error # None))
    /\ [][ (last_error # None /\ last_error' = None) =>
             (pc = "body" /\ nxt = NumPhases /\ raisedAt = 0
              /\ pc' = "watchdog") ]_vars

\* C13 witness: the second iteration has run all four phases and cleared
\* the error the first one had left.
C13_Witness ==
    iteration = 2 /\ pc = "sleep" /\ raisedAt = 0 /\ last_error = None
    /\ completions < 2 * NumPhases

\* The k most recent of the messages 1..k, at most n of them, in push order.
Recent(k, n) ==
    LET m == IF k < n THEN k ELSE n
    IN  [i \in 1..m |-> k - m + i]

\* C14 (as amended): log_tail is a ring of capacity 50: after k calls of
\* _log it holds exactly the most recent min(k, 50) messages in push order,
\* and its length never exceeds 50.
C14_Ring50 ==
    /\ Len(log_tail) <= LogCapacity
    /\ log_tail = Recent(pushed, LogCapacity)

\* C14 witness: more than 50 messages were pushed and the oldest were evicted.
C14_Witness ==
    pushed = 60 /\ Len(log_tail) = 50 /\ log_tail[1] = 11 /\ log_tail[50] = 60

\* C14 (original): the same with the capacity 100 of the specification.
C14_Ring100 ==
    /\ Len(log_tail) <= 100
    /\ log_tail = Recent(pushed, 100)

C12_FixedSleep ==
    /\ (c_pc = "loop" /\ c_iter >= 1 => slept = loop_interval)
    /\ (c_pc = "phases" /\ prevStart # -1 =>
            iterStart - prevStart = elapsed + loop_interval)

\* C12 witness: the second iteration starts after phases that overran the
\* interval and a full sleep.
C12_Witness ==
    /\ c_pc = "phases" /\ c_iter = 2 /\ loop_interval = 10
    /\ elapsed = 15 /\ slept = 10 /\ iterStart - prevStart = 25

\* C12 (original): the sleep is max(0, loop_interval - elapsed).
C12_SleepIsRemainder ==
    (c_pc = "loop" /\ c_iter >= 1) =>
        slept = (IF loop_interval - elapsed > 0
                 THEN loop_interval - elapsed ELSE 0)

\* The candidates attempted so far are the first ones of the chain, in
\* chain order.
AttemptsArePrefix ==
    /\ Len(attempts) <= Len(route_path)
    /\ attempts = SubSeq(route_path, 1, Len(attempts))

\* C15: complete() attempts the candidates in chain order and returns the
\* text of the first one that succeeds: all candidates before it were
\* attempted and failed, and none is attempted after the return.
C15_FirstSuccessReturned ==
    /\ [](r_mode = "complete" /\ r_pc # "start" => AttemptsArePrefix)
    /\ []((r_mode = "complete" /\ r_pc = "returned") =>
            /\ Len(outcomes) = Len(attempts)
            /\ outcomes[Len(outcomes)] = "text"
            /\ \A i \in 1..(Len(outcomes) - 1) : outcomes[i] \in FailureKinds
            /\ r_result = [kind |-> "text", cand |-> Len(attempts),
                           error |-> NoError])
    /\ [][r_pc = "returned" => attempts' = attempts]_vars

\* C15 witness: the third candidate answers after two failures, with a
\* fourth candidate left untried.
C15_Witness ==
    /\ r_mode = "complete" /\ r_pc = "returned"
    /\ Len(route_path) = 4 /\ Len(attempts) = 3
    /\ outcomes = <<"error", "malformed", "text">>

\* C16: when every candidate fails, complete() raises one RuntimeError
\* that carries the failure of the last candidate, and only after all
\* candidates of the chain were attempted.
C16_ExhaustionError ==
    (r_mode = "complete" /\ r_pc = "raised") =>
        /\ attempts = route_path
        /\ Len(outcomes) = Len(route_path)
        /\ \A i \in 1..Len(outcomes) : outcomes[i] \in FailureKinds
        /\ r_result.kind = "RuntimeError"
        /\ r_result.error = [cand |-> Len(route_path),
                             kind |-> outcomes[Len(outcomes)]]

\* C16 witness: three candidates failed in different ways.
C16_Witness ==
    /\ r_mode = "complete" /\ r_pc = "raised"
    /\ outcomes = <<"error", "error", "malformed">>
    /\ r_result.error = [cand |-> 3, kind |-> "malformed"]

\* C18: an attempt whose candidate does not respond is abandoned and the
\* call goes on (to the next candidate, or to its end).
C18_AttemptAbandoned ==
    (r_pc = "blocked") ~> (r_pc \in {"try", "returned", "raised"})

\* C19: in stream(), all chunks yielded to the caller come from one
\* candidate, and no candidate is attempted after a chunk was yielded.
C19_NoFallbackAfterYield ==
    /\ [](\A i \in 1..Len(yielded) : yielded[i] = yielded[1])
    /\ [][Len(yielded) > 0 => attempts' = attempts]_vars

\* C20: the chain is never empty, whatever the capability and the
\* configuration; with no model entry it is the emergency candidate alone.
C20_ChainNeverEmpty ==
    r_pc # "start" =>
        /\ route_path = _resolve_routing_priority(capability, config)
        /\ Len(route_path) >= 1
        /\ (/\ ~Truthy(config.capable_model) /\ ~Truthy(config.minimum_model)
            /\ ~Truthy(config.primary_model) /\ ~Truthy(config.fallback_model))
           => route_path = <<EmergencyModel>>

\* C20 witness: a configuration without any model entry was resolved and
\* the emergency candidate attempted.
C20_Witness ==
    /\ r_pc = "await"
    /\ config = [capable_model |-> None, minimum_model |-> None,
                 primary_model |-> None, fallback_model |-> None]
    /\ attempts = <<EmergencyModel>>

C21_TimeoutBudget ==
    (h_pc = "await" /\ h_timeout = INFERENCE_TIMEOUT_SECS) =>
        ChainBudget(DefaultModel) <= h_timeout

\* C22: a candidate that failed in an earlier request is not in the chain
\* of the request that follows it at once (within any cooldown window).
C22_FailedInCooldown ==
    r_pc \notin {"off", "start"} =>
        \A i \in 1..Len(route_path) : route_path[i] \notin prevFailed

\* C23: when complete() gives up, every candidate of the chain was
\* attempted once and retried NumRetries times.
C23_RetriesUsedUp ==
    (r_mode = "complete" /\ r_pc = "raised") =>
        Len(attempts) = (1 + NumRetries) * Len(route_path)

\* C24: the chain of every request after the first is the one computed
\* from the capability reported now and the configuration, whatever
\* succeeded or failed before.
C24_NoStickySession ==
    (requests > 1 /\ r_pc \notin {"off", "start"}) =>
        route_path = _resolve_routing_priority(capability, config)

\* C24 witness: in the second request the first candidate of the chain is
\* one that failed before, not the one that served the previous request.
C24_Witness ==
    /\ requests = 2 /\ r_pc = "await"
    /\ current_model \notin {"NONE", "FAILED"}
    /\ route_path[1] # current_model
    /\ route_path[1] \in prevFailed

\* C25: an external read answers with the engine's state, and that state
\* is the one of a phase boundary: the phase it reports is the engine's,
\* and the read does not happen while a phase body runs.
C25_SnapshotAtBoundary ==
    snap.kind # "none" =>
        /\ snap.kind \in {"state", "phase"}
        /\ snap.phase = snap.truePhase
        /\ snap.at # "body"

\* C26: every change of a field of the engine's state is made by a step
\* of the run() task.
C26_SingleWriter ==
    [][ <<status, current_phase, iteration, last_error, shutdown_event>>'
            # <<status, current_phase, iteration, last_error, shutdown_event>>
        => pc' # pc ]_vars

\* C27: push_log_event never raises; the queue never holds more than
\* maxsize entries and keeps them in push order; every push leaves the
\* pushed line as the newest entry, after evicting the oldest one when the
\* queue was full and nothing otherwise.
C27_DropOldest ==
    /\ [](~q_raised)
    /\ [](Len(_log_queue) <= QueueMaxsize)
    /\ [](\A i \in 1..(Len(_log_queue) - 1) : _log_queue[i] < _log_queue[i + 1])
    /\ [][ qpushed' = qpushed + 1 =>
             /\ _log_queue'[Len(_log_queue')] = qpushed'
             /\ _log_queue' =
                  Append(IF Len(_log_queue) = QueueMaxsize
                         THEN Tail(_log_queue) ELSE _log_queue, qpushed') ]_vars

\* C27 witness: two lines were pushed to a full queue and the two oldest
\* ones are gone.
C27_Witness ==
    /\ qpushed = QueueMaxsize + 2 /\ qgets = 0
    /\ Len(_log_queue) = QueueMaxsize
    /\ _log_queue[1] = 3
    /\ _log_queue[QueueMaxsize] = QueueMaxsize + 2

\* C28: an execute() call made while the status is not HEALTHY returns
\* DOCKER_ERROR, calls containers.run not once, and leaves the status as
\* it was.
C28_NoExecWhenNotOperational ==
    [][ (execs' = execs + 1 /\ _status # "HEALTHY") =>
            /\ sb_result' = "docker_error"
            /\ runCalls' = runCalls
            /\ _status' = _status ]_vars

\* C28 witness: after one script ran in a container the sandbox became
\* DEGRADED and a second execute() was rejected.
C28_Witness ==
    /\ execs = 2 /\ runCalls = 1
    /\ _status = "DEGRADED" /\ sb_result = "docker_error"

\* C29: records with identical content get the same id each time they
\* are stored, and the collection holds exactly one entry for the id of
\* every record stored.
C29_StoreIdempotent ==
    /\ \A i, j \in 1..Len(stored) :
          stored[i].record = stored[j].record => stored[i].id = stored[j].id
    /\ \A i \in 1..Len(stored) :
          Cardinality({k \in 1..Len(_exec_logs) :
                          _exec_logs[k].id = stored[i].id}) = 1

\* C29 witness: the same record was stored twice and the collection has
\* one entry.
C29_Witness ==
    /\ Len(stored) = 2
    /\ stored[1].record = stored[2].record
    /\ Len(_exec_logs) = 1

\* C30: a query returns a list and never raises, whatever the state of
\* the memory.
C30_QueryNeverRaises ==
    m_result.op \in Queries => m_result.outcome \in {"list", "empty_list"}

\* C31: every access to the collections runs on the executor's worker
\* thread, so none runs on the event-loop thread and no two run at the
\* same time.
C31_SerializedOnWorker ==
    /\ Cardinality(Accesses) <= 1
    /\ \A a \in Accesses : a.thread = "yantra-chroma"

\* C32: emit_telemetry never raises: once it has finished its result
\* is a boolean, True exactly when a POST attempt succeeded, and False
\* when aiohttp is missing or every attempt failed.
C32_TelemetryNeverRaises ==
    /\ e_result # "raised"
    /\ e_pc = "done" =>
          /\ e_result \in {"True", "False"}
          /\ e_result = "True" <=>
                \E k \in 1..Len(post_outcomes) : post_outcomes[k] = "ok"
          /\ ~_AIOHTTP_AVAILABLE => e_result = "False" /\ post_outcomes = <<>>
    /\ Len(post_outcomes) <= MAX_RETRIES

\* C32 witness: all MAX_RETRIES attempts failed, the exception left
\* _post, and emit_telemetry returned False.
C32_Witness ==
    /\ e_pc = "done"
    /\ Len(post_outcomes) = MAX_RETRIES
    /\ \A k \in 1..MAX_RETRIES : post_outcomes[k] # "ok"
    /\ e_result = "False"

\* C33: no privileged command carries a label or name with a character
\* outside [a-zA-Z0-9_], and a call given such a name ends with
\* VALIDATION_ERROR without having run any subprocess.
C33_OnlySafeNamesReachCommands ==
    /\ \A k \in 1..Len(commands) :
          commands[k].privileged =>
             \A i \in 1..Len(commands[k].name) :
                commands[k].name[i] \in SafeChars
    /\ (\E i \in 1..Len(b_name) : b_name[i] \notin SafeChars) =>
          /\ commands = <<>>
          /\ b_pc = "done" => b_result = "validation_error"

\* C34: the /command endpoint dispatches ping, get_phase and shutdown
\* only: a body with any other action (or none) is answered with the
\* 400 error, and every request other than shutdown leaves the engine,
\* the injected state and shutdown_requested as they were.
C34_ClosedVocabulary ==
    [][\A body \in CommandBodies :
          CommandStep(body) =>
             /\ body \in {"reboot", ""} => response' = "error_400"
             /\ response' \in {"pong", "phase", "shutdown_requested"}
                   => body \in Vocabulary
             /\ body # "shutdown" =>
                   UNCHANGED <<engineVars, sigPending, state_ref,
                               shutdown_requested, cmdIter>>]_vars

\* C34 witness: an unknown action was answered with the error while a
\* state is injected and the server is in use; no shutdown was requested.
C34_Witness ==
    /\ response = "error_400"
    /\ state_ref
    /\ ~shutdown_requested
    /\ cmdIter = -1
    /\ qpushed >= 1

PositionsOf(cand) == {k \in 1..Len(route_path) : route_path[k] = cand}

\* The candidates a configuration names: the local ones, as the router
\* spells them, and the cloud ones.
CapableCand == {"ollama/" \o m : m \in {config.capable_model} \ {None, ""}}
MinimumCand == {"ollama/" \o m : m \in {config.minimum_model} \ {None, ""}}
PrimaryCand == {config.primary_model} \ {None, ""}
FallbackCand == {config.fallback_model} \ {None, ""}

\* Every position of a candidate of A is before every position of one
\* of B.
Before(A, B) ==
    \A a \in A, b \in B : \A i \in PositionsOf(a), j \in PositionsOf(b) : i < j

\* C36: once resolved, the chain is the local candidates of the current
\* capability followed by the configured cloud candidates: local ones
\* only when the capability is not CLOUD_ONLY, the capable model before
\* the minimum model, every local one before every cloud one, cloud
\* primary before cloud fallback, and no capable model under
\* LOCAL_MINIMUM.
C36_ChainOrder ==
    r_pc # "start" =>
       /\ \A k \in 1..Len(route_path) :
             route_path[k] \in CapableCand \cup MinimumCand \cup PrimaryCand
                               \cup FallbackCand \cup {EmergencyModel}
       /\ capability = "CLOUD_ONLY" =>
             \A c \in CapableCand \cup MinimumCand : PositionsOf(c) = {}
       /\ capability = "LOCAL_MINIMUM" =>
             /\ \A c \in CapableCand : PositionsOf(c) = {}
             /\ \A c \in MinimumCand : PositionsOf(c) = {1}
       /\ capability = "LOCAL_CAPABLE" =>
             \A c \in CapableCand \cup MinimumCand : PositionsOf(c) # {}
       /\ Before(CapableCand, MinimumCand)
       /\ Before(CapableCand \cup MinimumCand, PrimaryCand \cup FallbackCand)
       /\ Before(PrimaryCand, FallbackCand)
       /\ \A c \in PrimaryCand \cup FallbackCand :
             Cardinality(PositionsOf(c)) = 1

\* C36 witness: a full configuration on a LOCAL_CAPABLE machine resolved
\* to a chain of four candidates.
C36_Witness ==
    /\ r_pc # "start"
    /\ capability = "LOCAL_CAPABLE"
    /\ Len(route_path) = 4
    /\ route_path[1] = "ollama/llama3:70b"
    /\ route_path[4] = "anthropic/claude-3-haiku"

\* The order of the steps of rollback_to_snapshot.
RollbackOrder == <<"sanitize", "exists", "rootid", "set_default", "reboot">>

\* C37: rollback_to_snapshot runs its steps in the order sanitize,
\* exists, rootid, set-default, reboot; a step that fails ends the call
\* with a result other than SUCCESS and is the last step executed;
\* set-default is run only with a validated positive id; reboot is run
\* only after set-default and only when it was requested.
C37_RollbackOrder ==
    b_op = "rollback_to_snapshot" =>
       /\ Len(b_steps) <= Len(RollbackOrder)
       /\ b_steps = SubSeq(RollbackOrder, 1, Len(b_steps))
       /\ failed_step # "none" =>
             /\ b_pc = "done"
             /\ b_steps[Len(b_steps)] = failed_step
             /\ b_result \in {"failure", "validation_error"}
       /\ b_result = "success" => failed_step = "none"
       /\ \A k \in 1..Len(commands) :
             /\ commands[k].verb = "subvolume set-default" =>
                   commands[k].id > 0 /\ commands[k].id = subvol_id
             /\ commands[k].verb = "reboot" =>
                   /\ b_reboot
                   /\ k > 1
                   /\ commands[k - 1].verb = "subvolume set-default"

\* The collaborators whose attribute is set.
Collaborators ==
    {c \in {"hardware", "router", "memory", "sandbox"} :
        \/ c = "hardware" /\ hardware_profiler
        \/ c = "router" /\ router
        \/ c = "memory" /\ memory
        \/ c = "sandbox" /\ sandbox}

\* C38: whatever fails at boot, _boot sends READY=1, sets the status to
\* ACTIVE and the loop is entered, and every collaborator whose
\* initialization failed is left unset.
C38_BootDegrades ==
    /\ boot_step = "done" =>
          /\ ready_notified
          /\ pc # "boot"
          /\ iteration = 0 /\ ~shutdown_event => status = "ACTIVE"
    /\ init_failed \cap Collaborators = {}

C40_StatusMatchesError ==
    pc = "watchdog" =>
       /\ status = "ERROR" <=> last_error # None
       /\ status = "ACTIVE" <=> last_error = None

\* C40 witness: the first iteration ran all its phases, a phase of the
\* second one raised, and the watchdog step is reached in ERROR.
C40_Witness ==
    /\ pc = "watchdog"
    /\ iteration = 2
    /\ completions >= NumPhases
    /\ status = "ERROR"
    /\ last_error = ErrText

====
